---- MODULE Spec2Model ----
(***************************************************************************)
(* Model of gocurl's connection-establishment pipeline: configuration      *)
(* parsing, the DNS resolver (internal/resolve) and the TLS handshake      *)
(* dispatcher (internal/client/cfcrypto).                                  *)
(*                                                                         *)
(* Conventions.                                                            *)
(*  - A net.IP is a sequence of bytes (length 4 or 16); the nil IP is      *)
(*    the empty sequence.                                                  *)
(*  - A Go error is a record [kind, u, q, errs]; the nil error has kind    *)
(*    "nil".  errs holds the wrapped errors of List/Join/Annotate.         *)
(*  - The network is an input of every operation: for every upstream and   *)
(*    query type the outcome of the DNS exchange is drawn from a small     *)
(*    set, and every exchange the code makes is appended to a query log.   *)
(***************************************************************************)
EXTENDS Integers, Sequences, FiniteSets, TLC

(***************************************************************************)
(* Bounds                                                                  *)
(***************************************************************************)
\* number of DNS upstreams the resolver holds (r.addrs)
NumUpstreams == 2
\* maximal number of resource records in an HTTPS answer
MaxRR == 2

Upstreams == 1..NumUpstreams

(***************************************************************************)
(* net.IP helpers (Go standard library, modelled by what they do on the    *)
(* literals the model uses).                                               *)
(***************************************************************************)
NilIP == <<>>

\* 16-byte form of an IPv4 address (::ffff:a.b.c.d)
V4InV6(a, b, c, d) == <<0, 0, 0, 0, 0, 0, 0, 0, 0, 0, 255, 255, a, b, c, d>>

V6Loopback == <<0, 0, 0, 0, 0, 0, 0, 0, 0, 0, 0, 0, 0, 0, 0, 1>>

\* net.ParseIP: always yields the 16-byte form, or nil for a non-literal
ParseIP(s) ==
    CASE s = "127.0.0.1" -> V4InV6(127, 0, 0, 1)
      [] s = "127.0.0.2" -> V4InV6(127, 0, 0, 2)
      [] s = "::ffff:127.0.0.1" -> V4InV6(127, 0, 0, 1)
      [] s = "::1" -> V6Loopback
      [] OTHER -> NilIP

\* net.IP.To4: the 4-byte form of an IPv4 address, nil otherwise
To4(ip) ==
    IF Len(ip) = 4 THEN ip
    ELSE IF /\ Len(ip) = 16
            /\ \A i \in 1..10 : ip[i] = 0
            /\ ip[11] = 255
            /\ ip[12] = 255
         THEN SubSeq(ip, 13, 16)
         ELSE NilIP

\* the address kept in the 16-byte form net.ParseIP yields
TrimZeroBytesSkipped(ip) == ip

\* "Trim zero bytes": if ip.To4() != nil { ip = ip.To4() }
TrimZeroBytes(ip) == IF To4(ip) # NilIP THEN To4(ip) ELSE ip

(***************************************************************************)
(* Errors                                                                  *)
(***************************************************************************)
Err(kind, u, q, errs) == [kind |-> kind, u |-> u, q |-> q, errs |-> errs]

NilErr == Err("nil", 0, "", <<>>)

\* const ErrEmptyResponse = errors.Error("empty response")
ErrEmptyResponse == Err("ErrEmptyResponse", 0, "", <<>>)

\* error returned by dns.Exchange (transport failure) for upstream u
ExchangeErr(u, q) == Err("exchange", u, q, <<>>)

\* fmt.Errorf("dns response %s code from %s: %s", ...)
RcodeErr(u, q) == Err("rcode", u, q, <<>>)

\* errors.Annotate(err, "...: %w"): wraps err
Annotate(e, u, q) == Err("annotate", u, q, <<e>>)

\* errors.List(msg, errs...): keeps all errors, Unwrap yields the first one
ErrorsList(errs) == Err("list", 0, "", errs)

\* errors.Join(errs...): nil errors are discarded, nil when nothing remains
ErrorsJoin(errs) ==
    LET kept == SelectSeq(errs, LAMBDA e : e # NilErr)
    IN  IF kept = <<>> THEN NilErr ELSE Err("join", 0, "", kept)

\* errors.Is(e, target): follows Unwrap() error / Unwrap() []error
RECURSIVE ErrorsIs(_, _)
ErrorsIs(e, target) ==
    \/ e = target
    \/ /\ e.kind = "annotate"
       /\ ErrorsIs(e.errs[1], target)
    \/ /\ e.kind = "list"
       /\ e.errs # <<>>
       /\ ErrorsIs(e.errs[1], target)
    \/ /\ e.kind = "join"
       /\ \E i \in 1..Len(e.errs) : ErrorsIs(e.errs[i], target)

\* e carries sub (as itself or anywhere among the errors it aggregates)
RECURSIVE ErrorContains(_, _)
ErrorContains(e, sub) ==
    \/ e = sub
    \/ \E i \in 1..Len(e.errs) : ErrorContains(e.errs[i], sub)

(***************************************************************************)
(* Configuration (ParseConfig and its helpers)                             *)
(***************************************************************************)
\* map[string][]net.IP with no entries
EmptyMap == [h \in {} |-> <<>>]

\* m[host] = ips
MapPut(m, host, ips) ==
    [h \in (DOMAIN m) \cup {host} |-> IF h = host THEN ips ELSE m[h]]

\* One --resolve value "HOST:PORT:ADDRS".  nparts is the number of parts
\* strings.SplitN(r, ":", 3) yields, host is parts[0] and addrs is
\* strings.Split(parts[2], ","), which always has at least one element
\* (the empty string splits into one empty token).
ResolveArg(nparts, host, addrs) ==
    [nparts |-> nparts, host |-> host, addrs |-> addrs]

RECURSIVE parseResolveFrom(_, _, _)
parseResolveFrom(resolve, i, m) ==
    IF i > Len(resolve) THEN [err |-> FALSE, m |-> m]
    ELSE LET r == resolve[i]
         IN  IF r.nparts # 3 THEN [err |-> TRUE, m |-> EmptyMap]
             ELSE IF \E k \in 1..Len(r.addrs) : ParseIP(r.addrs[k]) = NilIP
                  THEN [err |-> TRUE, m |-> EmptyMap]
                  ELSE LET ipAddresses ==
                               [k \in 1..Len(r.addrs) |->
                                   TrimZeroBytes(ParseIP(r.addrs[k]))]
                       IN  IF Len(ipAddresses) = 0
                           THEN [err |-> TRUE, m |-> EmptyMap]
                           ELSE parseResolveFrom(resolve, i + 1,
                                                 MapPut(m, r.host, ipAddresses))

\* parseResolve creates the "resolve" map from the --resolve values
parseResolve(resolve) == parseResolveFrom(resolve, 1, EmptyMap)

\* the ECH configuration list carried by a well-formed --echconfig value
PresetECHConfigs == <<1>>

\* unmarshalECHConfigs: base64-decode and parse the --echconfig value
unmarshalECHConfigs(echConfig) ==
    IF echConfig = "AEX+DQBB"
    THEN [err |-> FALSE, echConfigs |-> PresetECHConfigs]
    ELSE [err |-> TRUE, echConfigs |-> <<>>]

\* A "host:port" address is the pair <<host, port>>: net.JoinHostPort builds
\* it and net.SplitHostPort takes it apart.
JoinHostPort(host, port) == <<host, port>>

NoAddr == JoinHostPort("", "")

\* A *url.URL is the record of its scheme, host name and port (Port is ""
\* when the URL names none); the nil URL has the empty scheme.
URL(scheme, hostname, port) ==
    [Scheme |-> scheme, Hostname |-> hostname, Port |-> port]

NoURL == URL("", "", "")

\* strconv.Atoi on the numerals the command lines use; anything else is a
\* syntax error
Atoi(s) ==
    CASE s = "0" -> [err |-> FALSE, n |-> 0]
      [] s = "2" -> [err |-> FALSE, n |-> 2]
      [] s = "3" -> [err |-> FALSE, n |-> 3]
      [] s = "7" -> [err |-> FALSE, n |-> 7]
      [] s = "50" -> [err |-> FALSE, n |-> 50]
      [] OTHER -> [err |-> TRUE, n |-> 0]

\* parseConnectTo creates the "connect-to" map.  A --connect-to value is
\* given by the parts strings.SplitN(ct, ":", 4) yields.
RECURSIVE parseConnectToFrom(_, _, _)
parseConnectToFrom(connectTo, i, m) ==
    IF i > Len(connectTo) THEN [err |-> FALSE, m |-> m]
    ELSE LET parts == connectTo[i]
         IN  IF Len(parts) # 4 THEN [err |-> TRUE, m |-> EmptyMap]
             ELSE parseConnectToFrom(connectTo, i + 1,
                      MapPut(m, JoinHostPort(parts[1], parts[2]),
                             JoinHostPort(parts[3], parts[4])))

parseConnectTo(connectTo) == parseConnectToFrom(connectTo, 1, EmptyMap)

\* parseTLSSplitHello parses --tls-split-hello, given by the parts
\* strings.SplitN(tlsSplitHello, ":", 2) yields
parseTLSSplitHello(tlsSplitHello) ==
    IF Len(tlsSplitHello) # 2 THEN [err |-> TRUE, chunkSize |-> 0, delay |-> 0]
    ELSE LET chunkSize == Atoi(tlsSplitHello[1])
             delay == Atoi(tlsSplitHello[2])
         IN  IF chunkSize.err \/ delay.err
             THEN [err |-> TRUE, chunkSize |-> 0, delay |-> 0]
             ELSE [err |-> FALSE, chunkSize |-> chunkSize.n, delay |-> delay.n]

\* the zero-value *Config
ZeroConfig ==
    [Resolve |-> EmptyMap, ECH |-> FALSE, ECHGrease |-> FALSE,
     ECHConfigs |-> <<>>, PostQuantum |-> FALSE,
     RequestURL |-> NoURL, ProxyURL |-> NoURL, ConnectTo |-> EmptyMap,
     ForceHTTP11 |-> FALSE, ForceHTTP2 |-> FALSE, ForceHTTP3 |-> FALSE,
     TLSServerName |-> "", TLSSplitChunkSize |-> 0, TLSSplitDelay |-> 0,
     ConnectTimeout |-> 0]

\* --connect-timeout: the maximum time in seconds allowed for the connection
\* phase, 0 when the option is not given
parseConnectTimeout(opts) == opts.ConnectTimeout

\* ParseConfig: the fields of *Config the resolver, the dialer chain, the TLS
\* dispatcher and the transport selector read.  opts.ECHGrease and
\* opts.TLSServerName are copied as opts.ECH is.  An option that is not
\* given is the empty string or the empty list.
ParseConfig(opts) ==
    LET res == IF Len(opts.Resolve) > 0 THEN parseResolve(opts.Resolve)
               ELSE [err |-> FALSE, m |-> EmptyMap]
        ech == IF opts.ECHConfig # "" THEN unmarshalECHConfigs(opts.ECHConfig)
               ELSE [err |-> FALSE, echConfigs |-> <<>>]
        ct == IF Len(opts.ConnectTo) > 0 THEN parseConnectTo(opts.ConnectTo)
              ELSE [err |-> FALSE, m |-> EmptyMap]
        split == IF opts.TLSSplitHello # <<>>
                 THEN parseTLSSplitHello(opts.TLSSplitHello)
                 ELSE [err |-> FALSE, chunkSize |-> 0, delay |-> 0]
    IN  IF res.err \/ ech.err \/ ct.err \/ split.err
        THEN [err |-> TRUE, cfg |-> ZeroConfig]
        ELSE [err |-> FALSE,
              cfg |-> [Resolve |-> res.m,
                       \* --echconfig implicitly enables --ech as well.
                       ECH |-> opts.ECH \/ opts.ECHConfig # "",
                       ECHGrease |-> opts.ECHGrease,
                       ECHConfigs |-> ech.echConfigs,
                       PostQuantum |-> opts.PostQuantum,
                       RequestURL |-> opts.URL,
                       ProxyURL |-> opts.ProxyURL,
                       ConnectTo |-> ct.m,
                       ForceHTTP11 |-> opts.HTTPv11,
                       ForceHTTP2 |-> opts.HTTPv2,
                       ForceHTTP3 |-> opts.HTTPv3,
                       TLSServerName |-> opts.TLSServerName,
                       TLSSplitChunkSize |-> split.chunkSize,
                       TLSSplitDelay |-> split.delay,
                       ConnectTimeout |-> parseConnectTimeout(opts)]]

(***************************************************************************)
(* The network: DNS upstreams and what they answer                         *)
(***************************************************************************)
\* address records an upstream serves: they name the upstream that served
\* them, so that the origin of a result can be told
AddrOf(u, q) ==
    IF q = "A" THEN <<10, 0, 0, u>>
    ELSE <<32, 1, 13, 184, 0, 0, 0, 0, 0, 0, 0, 0, 0, 0, 0, u>>

RR(type, ip, svcb) == [type |-> type, ip |-> ip, svcb |-> svcb]

CNAMERecord == RR("CNAME", NilIP, <<>>)

\* the ECH configurations parsed from the ech parameter at value j of
\* record i: two configurations, identified by their position
ECHConfigsAt(i, j) == <<100 * i + 10 * j + 1, 100 * i + 10 * j + 2>>

\* one SVCB key/value pair of an HTTPS record
SvcbValue(kind, i, j) ==
    CASE kind = "alpn" -> [key |-> "alpn", valid |-> TRUE, configs |-> <<>>]
      [] kind = "echbad" -> [key |-> "ech", valid |-> FALSE, configs |-> <<>>]
      [] kind = "echnone" -> [key |-> "ech", valid |-> TRUE, configs |-> <<>>]
      [] kind = "echok" ->
            [key |-> "ech", valid |-> TRUE, configs |-> ECHConfigsAt(i, j)]

\* an ech parameter is malformed ("echbad"), parses to no supported
\* configuration ("echnone"), or parses to two configurations ("echok")
ECHParamKinds == {"echbad", "echnone", "echok"}

SeqsUpTo(S, n) == UNION {[1..k -> S] : k \in 0..n}

\* shapes of one record of an HTTPS answer: a CNAME, or an HTTPS record
\* given by the kinds of its SVCB values.  A key occurs at most once in a
\* record and the keys are in increasing order: an alpn parameter, followed
\* or not by an ech parameter.
RRShapes ==
    {[type |-> "CNAME", vals |-> <<>>], [type |-> "HTTPS", vals |-> <<"alpn">>]} \cup
    {[type |-> "HTTPS", vals |-> <<"alpn", e>>] : e \in ECHParamKinds}

\* shapes of the non-empty HTTPS record set of the queried domain
RRSetShapes == SeqsUpTo(RRShapes, MaxRR) \ {<<>>}

\* the resource records of a record-set shape
RRSetOf(shape) ==
    [i \in 1..Len(shape) |->
        IF shape[i].type = "CNAME" THEN CNAMERecord
        ELSE RR("HTTPS", NilIP,
                [j \in 1..Len(shape[i].vals) |->
                    SvcbValue(shape[i].vals[j], i, j)])]

\* what an upstream does with an A or AAAA query / with an HTTPS query
AddrOutcomes == {"neterr", "servfail", "empty", "cname", "addr"}
HTTPSOutcomes == {"neterr", "servfail", "empty", "ok"}

\* every upstream unreachable, for every query type
Unreachable == [u \in Upstreams |-> "neterr"]

NoNetwork ==
    [A |-> Unreachable, AAAA |-> Unreachable, HTTPS |-> Unreachable,
     rrset |-> <<[type |-> "CNAME", vals |-> <<>>]>>]

\* the networks a host lookup is tried against: the A and AAAA outcomes vary
\* (a host lookup sends no HTTPS query)
HostNetworks ==
    {[A |-> a, AAAA |-> b, HTTPS |-> Unreachable, rrset |-> NoNetwork.rrset] :
        a \in [Upstreams -> AddrOutcomes], b \in [Upstreams -> AddrOutcomes]}

\* the networks an ECH lookup is tried against: the HTTPS outcomes and the
\* HTTPS record set vary (an ECH lookup sends no A or AAAA query)
ECHNetworks ==
    {[A |-> Unreachable, AAAA |-> Unreachable, HTTPS |-> h, rrset |-> s] :
        h \in [Upstreams -> HTTPSOutcomes], s \in RRSetShapes}

\* dns.Exchange(m, addr): the reply of upstream u to a query of type q
Exchange(net, u, q) ==
    LET o == net[q][u]
    IN  CASE o = "neterr" ->
                [err |-> ExchangeErr(u, q), rcodeSuccess |-> FALSE, Answer |-> <<>>]
          [] o = "servfail" ->
                [err |-> NilErr, rcodeSuccess |-> FALSE, Answer |-> <<>>]
          [] o = "empty" ->
                [err |-> NilErr, rcodeSuccess |-> TRUE, Answer |-> <<>>]
          [] o = "cname" ->
                [err |-> NilErr, rcodeSuccess |-> TRUE, Answer |-> <<CNAMERecord>>]
          [] o = "addr" ->
                [err |-> NilErr, rcodeSuccess |-> TRUE,
                 Answer |-> <<CNAMERecord, RR(q, AddrOf(u, q), <<>>)>>]
          [] o = "ok" ->
                [err |-> NilErr, rcodeSuccess |-> TRUE, Answer |-> RRSetOf(net.rrset)]

(***************************************************************************)
(* Resolver                                                                *)
(***************************************************************************)
\* dnsLookup reporting an answer without records by an error that does not
\* wrap ErrEmptyResponse
dnsLookupPlainEmptyErr(net, u, q) ==
    LET resp == Exchange(net, u, q)
    IN  IF resp.err # NilErr THEN [Answer |-> <<>>, err |-> resp.err]
        ELSE IF ~resp.rcodeSuccess THEN [Answer |-> <<>>, err |-> RcodeErr(u, q)]
        ELSE IF Len(resp.Answer) = 0
             THEN [Answer |-> <<>>, err |-> Err("norecords", u, q, <<>>)]
             ELSE [Answer |-> resp.Answer, err |-> NilErr]

\* dnsLookup: one exchange, turned into an error when the response code is
\* not success or when there are no resource records
dnsLookup(net, u, q) ==
    LET resp == Exchange(net, u, q)
    IN  IF resp.err # NilErr THEN [Answer |-> <<>>, err |-> resp.err]
        ELSE IF ~resp.rcodeSuccess THEN [Answer |-> <<>>, err |-> RcodeErr(u, q)]
        ELSE IF Len(resp.Answer) = 0
             THEN [Answer |-> <<>>, err |-> Annotate(ErrEmptyResponse, u, q)]
             ELSE [Answer |-> resp.Answer, err |-> NilErr]

\* dnsLookupAll that goes on to the remaining upstreams after a successful
\* response and returns the last successful one
RECURSIVE dnsLookupAllFromKeepGoing(_, _, _, _, _, _)
dnsLookupAllFromKeepGoing(net, addrs, q, i, errs, asked) ==
    IF i > Len(addrs)
    THEN [Answer |-> <<>>, err |-> ErrorsList(errs), asked |-> asked]
    ELSE LET r == dnsLookup(net, addrs[i], q)
             nowAsked == Append(asked, [q |-> q, u |-> addrs[i]])
             rest == dnsLookupAllFromKeepGoing(net, addrs, q, i + 1, errs, nowAsked)
         IN  IF r.err # NilErr
             THEN dnsLookupAllFromKeepGoing(net, addrs, q, i + 1,
                                            Append(errs, r.err), nowAsked)
             ELSE IF rest.err = NilErr THEN rest
                  ELSE [Answer |-> r.Answer, err |-> NilErr, asked |-> rest.asked]

\* dnsLookupAll that keeps only the error of the upstream tried last
RECURSIVE dnsLookupAllFromLastErr(_, _, _, _, _, _)
dnsLookupAllFromLastErr(net, addrs, q, i, errs, asked) ==
    IF i > Len(addrs)
    THEN [Answer |-> <<>>, err |-> ErrorsList(errs), asked |-> asked]
    ELSE LET r == dnsLookup(net, addrs[i], q)
             nowAsked == Append(asked, [q |-> q, u |-> addrs[i]])
         IN  IF r.err # NilErr
             THEN dnsLookupAllFromLastErr(net, addrs, q, i + 1, <<r.err>>, nowAsked)
             ELSE [Answer |-> r.Answer, err |-> NilErr, asked |-> nowAsked]

\* dnsLookupAll that asks an upstream a second time when its exchange failed
RECURSIVE dnsLookupAllFromRetry(_, _, _, _, _, _)
dnsLookupAllFromRetry(net, addrs, q, i, errs, asked) ==
    IF i > Len(addrs)
    THEN [Answer |-> <<>>, err |-> ErrorsList(errs), asked |-> asked]
    ELSE LET r == dnsLookup(net, addrs[i], q)
             nowAsked == Append(asked, [q |-> q, u |-> addrs[i]])
             again == Append(nowAsked, [q |-> q, u |-> addrs[i]])
         IN  IF r.err # NilErr
             THEN dnsLookupAllFromRetry(net, addrs, q, i + 1, Append(errs, r.err), again)
             ELSE [Answer |-> r.Answer, err |-> NilErr, asked |-> nowAsked]

\* the loop of dnsLookupAll from upstream addrs[i] on; errs are the errors
\* collected so far, asked the exchanges made so far
RECURSIVE dnsLookupAllFrom(_, _, _, _, _, _)
dnsLookupAllFrom(net, addrs, q, i, errs, asked) ==
    IF i > Len(addrs)
    THEN [Answer |-> <<>>, err |-> ErrorsList(errs), asked |-> asked]
    ELSE LET r == dnsLookup(net, addrs[i], q)
             nowAsked == Append(asked, [q |-> q, u |-> addrs[i]])
         IN  IF r.err # NilErr
             THEN dnsLookupAllFrom(net, addrs, q, i + 1, Append(errs, r.err), nowAsked)
             ELSE [Answer |-> r.Answer, err |-> NilErr, asked |-> nowAsked]

\* dnsLookupAll sends the query to each DNS resolver until it gets a
\* successful non-empty response
dnsLookupAll(net, addrs, q) == dnsLookupAllFrom(net, addrs, q, 1, <<>>, <<>>)

\* lookupFromCfg reporting a hit when nothing is configured for the hostname
lookupFromCfgAlwaysOk(c, hostname) ==
    IF Cardinality(DOMAIN c.Resolve) = 0 THEN [addrs |-> <<>>, ok |-> FALSE]
    ELSE IF hostname \in DOMAIN c.Resolve
         THEN [addrs |-> c.Resolve[hostname], ok |-> TRUE]
         ELSE IF "*" \in DOMAIN c.Resolve
              THEN [addrs |-> c.Resolve["*"], ok |-> TRUE]
              ELSE [addrs |-> <<>>, ok |-> TRUE]

\* lookupFromCfg consulting the wildcard entry before the exact one
lookupFromCfgStarFirst(c, hostname) ==
    IF Cardinality(DOMAIN c.Resolve) = 0 THEN [addrs |-> <<>>, ok |-> FALSE]
    ELSE IF "*" \in DOMAIN c.Resolve
         THEN [addrs |-> c.Resolve["*"], ok |-> TRUE]
         ELSE IF hostname \in DOMAIN c.Resolve
              THEN [addrs |-> c.Resolve[hostname], ok |-> TRUE]
              ELSE [addrs |-> <<>>, ok |-> FALSE]

\* lookupFromCfg checks if IP addresses for hostname are in the configuration
lookupFromCfg(c, hostname) ==
    IF Cardinality(DOMAIN c.Resolve) = 0 THEN [addrs |-> <<>>, ok |-> FALSE]
    ELSE IF hostname \in DOMAIN c.Resolve
         THEN [addrs |-> c.Resolve[hostname], ok |-> TRUE]
         ELSE IF "*" \in DOMAIN c.Resolve
              THEN [addrs |-> c.Resolve["*"], ok |-> TRUE]
              ELSE [addrs |-> <<>>, ok |-> FALSE]

\* the A and AAAA records of an answer, in order
RECURSIVE AnswerAddresses(_, _)
AnswerAddresses(answer, i) ==
    IF i > Len(answer) THEN <<>>
    ELSE IF answer[i].type \in {"A", "AAAA"}
         THEN <<answer[i].ip>> \o AnswerAddresses(answer, i + 1)
         ELSE AnswerAddresses(answer, i + 1)

\* the loop of LookupHost leaving at the first query type that fails
RECURSIVE lookupQTypesStopOnErr(_, _, _, _, _, _, _)
lookupQTypesStopOnErr(net, addrs, qTypes, i, ipAddresses, errs, asked) ==
    IF i > Len(qTypes)
    THEN [ipAddresses |-> ipAddresses, errs |-> errs, asked |-> asked]
    ELSE LET r == dnsLookupAll(net, addrs, qTypes[i])
         IN  IF r.err # NilErr
             THEN [ipAddresses |-> ipAddresses, errs |-> Append(errs, r.err),
                   asked |-> asked \o r.asked]
             ELSE lookupQTypesStopOnErr(net, addrs, qTypes, i + 1,
                                        ipAddresses \o AnswerAddresses(r.Answer, 1),
                                        errs, asked \o r.asked)

\* the loop of LookupHost over the query types qTypes[i..]
RECURSIVE lookupQTypes(_, _, _, _, _, _, _)
lookupQTypes(net, addrs, qTypes, i, ipAddresses, errs, asked) ==
    IF i > Len(qTypes)
    THEN [ipAddresses |-> ipAddresses, errs |-> errs, asked |-> asked]
    ELSE LET r == dnsLookupAll(net, addrs, qTypes[i])
         IN  IF r.err # NilErr
             THEN lookupQTypes(net, addrs, qTypes, i + 1, ipAddresses,
                               Append(errs, r.err), asked \o r.asked)
             ELSE lookupQTypes(net, addrs, qTypes, i + 1,
                               ipAddresses \o AnswerAddresses(r.Answer, 1),
                               errs, asked \o r.asked)

\* r.addrs: the upstreams, in configured order
ResolverAddrs == [u \in Upstreams |-> u]

\* Resolver.LookupHost
LookupHost(c, net, hostname) ==
    LET ip == ParseIP(hostname)
        fromCfg == lookupFromCfg(c, hostname)
        dns == lookupQTypes(net, ResolverAddrs, <<"A", "AAAA">>, 1, <<>>, <<>>, <<>>)
    IN  IF ip # NilIP
        THEN [ipAddresses |-> <<TrimZeroBytes(ip)>>, err |-> NilErr, asked |-> <<>>]
        ELSE IF fromCfg.ok
             THEN [ipAddresses |-> fromCfg.addrs, err |-> NilErr, asked |-> <<>>]
             ELSE IF Len(dns.ipAddresses) = 0
                  THEN [ipAddresses |-> <<>>,
                        err |-> ErrorsJoin(<<ErrEmptyResponse, ErrorsJoin(dns.errs)>>),
                        asked |-> dns.asked]
                  ELSE [ipAddresses |-> dns.ipAddresses, err |-> NilErr,
                        asked |-> dns.asked]

\* ctls.UnmarshalECHConfigs applied to the ech parameter at position pos
UnmarshalECHConfigs(v, pos) ==
    IF v.valid THEN [echConfigs |-> v.configs, err |-> NilErr]
    ELSE [echConfigs |-> <<>>, err |-> Err("echconfig", pos, "", <<>>)]

\* the loop over v.SVCB.Value giving up at the first malformed ech parameter
RECURSIVE svcbECHConfigsFatal(_, _, _, _)
svcbECHConfigsFatal(vals, i, j, acc) ==
    IF j > Len(vals) THEN acc
    ELSE IF vals[j].key = "ech"
         THEN LET r == UnmarshalECHConfigs(vals[j], 10 * i + j)
              IN  IF r.err # NilErr
                  THEN [echConfigs |-> <<>>, errs |-> Append(acc.errs, r.err)]
                  ELSE svcbECHConfigsFatal(vals, i, j + 1,
                           [echConfigs |-> acc.echConfigs \o r.echConfigs,
                            errs |-> acc.errs])
         ELSE svcbECHConfigsFatal(vals, i, j + 1, acc)

\* the loop of LookupECHConfigs over v.SVCB.Value[j..] of record i
RECURSIVE svcbECHConfigs(_, _, _, _)
svcbECHConfigs(vals, i, j, acc) ==
    IF j > Len(vals) THEN acc
    ELSE IF vals[j].key = "ech"
         THEN LET r == UnmarshalECHConfigs(vals[j], 10 * i + j)
              IN  IF r.err # NilErr
                  THEN svcbECHConfigs(vals, i, j + 1,
                           [echConfigs |-> acc.echConfigs,
                            errs |-> Append(acc.errs, r.err)])
                  ELSE svcbECHConfigs(vals, i, j + 1,
                           [echConfigs |-> acc.echConfigs \o r.echConfigs,
                            errs |-> acc.errs])
         ELSE svcbECHConfigs(vals, i, j + 1, acc)

\* the loop of LookupECHConfigs over resp.Answer[i..]
RECURSIVE answerECHConfigs(_, _, _)
answerECHConfigs(answer, i, acc) ==
    IF i > Len(answer) THEN acc
    ELSE IF answer[i].type = "HTTPS"
         THEN answerECHConfigs(answer, i + 1,
                               svcbECHConfigs(answer[i].svcb, i, 1, acc))
         ELSE answerECHConfigs(answer, i + 1, acc)

\* LookupECHConfigs that goes to DNS although a configuration was supplied
LookupECHConfigsAlwaysDNS(c, net, hostname) ==
    LET r == dnsLookupAll(net, ResolverAddrs, "HTTPS")
        found == answerECHConfigs(r.Answer, 1, [echConfigs |-> <<>>, errs |-> <<>>])
    IN  IF r.err # NilErr
        THEN [echConfigs |-> <<>>, err |-> r.err, asked |-> r.asked]
        ELSE IF Len(found.echConfigs) = 0
             THEN [echConfigs |-> <<>>,
                   err |-> ErrorsJoin(<<ErrEmptyResponse, ErrorsJoin(found.errs)>>),
                   asked |-> r.asked]
             ELSE [echConfigs |-> found.echConfigs, err |-> NilErr,
                   asked |-> r.asked]

\* Resolver.LookupECHConfigs
LookupECHConfigs(c, net, hostname) ==
    LET r == dnsLookupAll(net, ResolverAddrs, "HTTPS")
        found == answerECHConfigs(r.Answer, 1, [echConfigs |-> <<>>, errs |-> <<>>])
    IN  IF Len(c.ECHConfigs) > 0
        THEN [echConfigs |-> c.ECHConfigs, err |-> NilErr, asked |-> <<>>]
        ELSE IF r.err # NilErr
             THEN [echConfigs |-> <<>>, err |-> r.err, asked |-> r.asked]
             ELSE IF Len(found.echConfigs) = 0
                  THEN [echConfigs |-> <<>>,
                        err |-> ErrorsJoin(<<ErrEmptyResponse, ErrorsJoin(found.errs)>>),
                        asked |-> r.asked]
                  ELSE [echConfigs |-> found.echConfigs, err |-> NilErr,
                        asked |-> r.asked]

(***************************************************************************)
(* TLS handshake dispatcher                                                *)
(***************************************************************************)
\* no ClientHello sent
NoHello ==
    [sent |-> FALSE, ServerName |-> "", NextProtos |-> <<>>, ECHEnabled |-> FALSE,
     ClientECHConfigs |-> <<>>, CurvePreferences |-> <<>>]

\* the error c.Handshake() reports when the handshake fails
HandshakeErr == Err("handshake", 0, "", <<>>)

Contains(seq, x) == \E i \in 1..Len(seq) : seq[i] = x

\* the ctls.Config Handshake assembles from tlsConfig, cfg and the ECH
\* configurations it found.  MinVersion, MaxVersion, InsecureSkipVerify and
\* Rand are copied from tlsConfig unchanged and are left out.
clientConfig(tlsConfig, c, echConfigs) ==
    [sent |-> TRUE,
     ServerName |-> tlsConfig.ServerName,
     NextProtos |->
         IF /\ Contains(tlsConfig.NextProtos, "http/1.1")
            /\ Contains(tlsConfig.NextProtos, "h2")
         THEN <<"http/1.1">>
         ELSE tlsConfig.NextProtos,
     ECHEnabled |-> c.ECH \/ c.ECHGrease,
     ClientECHConfigs |-> IF Len(echConfigs) > 0 THEN echConfigs ELSE <<>>,
     CurvePreferences |->
         IF c.PostQuantum THEN <<"X25519MLKEM768", "X25519", "CurveP256">>
         ELSE <<>>]

\* Handshake that gives up with the lookup error when the ECH configuration
\* is not found
HandshakeLookupFatal(tlsConfig, c, net, ok) ==
    LET lookup == IF c.ECH THEN LookupECHConfigs(c, net, tlsConfig.ServerName)
                  ELSE [echConfigs |-> <<>>, err |-> NilErr, asked |-> <<>>]
    IN  IF lookup.err # NilErr
        THEN [hello |-> NoHello, conn |-> FALSE, err |-> lookup.err,
              asked |-> lookup.asked, warnings |-> <<>>]
        ELSE [hello |-> clientConfig(tlsConfig, c, lookup.echConfigs),
              conn |-> ok,
              err |-> IF ok THEN NilErr ELSE HandshakeErr,
              asked |-> lookup.asked,
              warnings |-> <<>>]

\* Handshake that looks the ECH configuration up for ECH grease as well
HandshakeGreaseLookup(tlsConfig, c, net, ok) ==
    LET lookup == IF c.ECH \/ c.ECHGrease
                  THEN LookupECHConfigs(c, net, tlsConfig.ServerName)
                  ELSE [echConfigs |-> <<>>, err |-> NilErr, asked |-> <<>>]
        warnings == IF lookup.err # NilErr
                    THEN <<[msg |-> "Warning: ECH config not found",
                            err |-> lookup.err]>>
                    ELSE <<>>
    IN  [hello |-> clientConfig(tlsConfig, c, lookup.echConfigs),
         conn |-> ok,
         err |-> IF ok THEN NilErr ELSE HandshakeErr,
         asked |-> lookup.asked,
         warnings |-> warnings]

\* cfcrypto.Handshake on an established connection.  ok is the outcome of
\* c.Handshake() on the wire.
Handshake(tlsConfig, c, net, ok) ==
    LET lookup == IF c.ECH THEN LookupECHConfigs(c, net, tlsConfig.ServerName)
                  ELSE [echConfigs |-> <<>>, err |-> NilErr, asked |-> <<>>]
        \* Continue even if ECH config is not found.
        warnings == IF lookup.err # NilErr
                    THEN <<[msg |-> "Warning: ECH config not found",
                            err |-> lookup.err]>>
                    ELSE <<>>
    IN  [hello |-> clientConfig(tlsConfig, c, lookup.echConfigs),
         conn |-> ok,
         err |-> IF ok THEN NilErr ELSE HandshakeErr,
         asked |-> lookup.asked,
         warnings |-> warnings]

(***************************************************************************)
(* TLS-Split connection (splittls)                                         *)
(***************************************************************************)
\* longest buffer written to a connection
MaxLen == 8
\* number of Write calls followed on one connection
MaxWrites == 7

\* A buffer is the sequence of its bytes.  Record is a buffer of n bytes whose
\* bytes 0, 1 and 5 are those of hdr where it is long enough; every other
\* byte tells its position.
Record(hdr, n) ==
    [i \in 1..n |-> IF i = 1 THEN hdr[1]
                    ELSE IF i = 2 THEN hdr[2]
                    ELSE IF i = 6 THEN hdr[3]
                    ELSE 200 + i]

\* b[lo:hi]
Slice(b, lo, hi) == SubSeq(b, lo + 1, hi)

\* the splitTLSConn that CreateDialFunc's dial function returns
NewSplitTLSConn(firstChunkSize, delay) ==
    [firstChunkSize |-> firstChunkSize, delay |-> delay,
     writeCnt |-> 0, splitDone |-> FALSE]

\* isClientHello that inspects one more packet
isClientHelloSixPackets(c, b) ==
    IF c.writeCnt > 6 \/ c.splitDone \/ Len(b) < 6 THEN FALSE
    ELSE IF b[1] # 22 THEN FALSE
    ELSE IF b[2] # 3 THEN FALSE
    ELSE IF b[6] # 1 THEN FALSE
    ELSE TRUE

\* isClientHello that does not look at the message type
isClientHelloAnyMessage(c, b) ==
    IF c.writeCnt > 5 \/ c.splitDone \/ Len(b) < 6 THEN FALSE
    ELSE IF b[1] # 22 THEN FALSE
    ELSE IF b[2] # 3 THEN FALSE
    ELSE TRUE

\* isClientHello checks if the packet is ClientHello: record type handshake
\* (0x16), TLS version 0x03, message type ClientHello (0x01)
isClientHello(c, b) ==
    IF c.writeCnt > 5 \/ c.splitDone \/ Len(b) < 6 THEN FALSE
    ELSE IF b[1] # 22 THEN FALSE
    ELSE IF b[2] # 3 THEN FALSE
    ELSE IF b[6] # 1 THEN FALSE
    ELSE TRUE

\* what a Write call did: the connection afterwards, the calls it made on
\* the base connection and the pauses between them, and what it returned.  A
\* call that panics returns nothing.
WriteResult(c, out, n, err, panic) ==
    [c |-> c, out |-> out, n |-> n, err |-> err, panic |-> panic]

BaseWrite(chunk) == [ev |-> "write", b |-> chunk]

Sleep(ms) == [ev |-> "sleep", ms |-> ms]

\* Write that cuts the second chunk one byte late
WriteSecondChunkLate(conn, b, e) ==
    LET c == [conn EXCEPT !.writeCnt = @ + 1]
    IN  IF isClientHello(c, b)
        THEN IF c.firstChunkSize > Len(b)
             THEN WriteResult(c, <<>>, 0, FALSE, TRUE)
             ELSE LET first == Slice(b, 0, c.firstChunkSize)
                      second == Slice(b, c.firstChunkSize + 1, Len(b))
                      pause == IF c.delay > 0 THEN <<Sleep(c.delay)>> ELSE <<>>
                  IN  IF e.w1 = "err"
                      THEN WriteResult(c, <<BaseWrite(first)>>, 0, TRUE, FALSE)
                      ELSE IF e.w2 = "err"
                      THEN WriteResult(c, <<BaseWrite(first)>> \o pause \o
                                          <<BaseWrite(second)>>,
                                       Len(first), TRUE, FALSE)
                      ELSE WriteResult(c, <<BaseWrite(first)>> \o pause \o
                                          <<BaseWrite(second)>>,
                                       Len(first) + Len(second), FALSE, FALSE)
        ELSE IF e.w1 = "err"
             THEN WriteResult(c, <<BaseWrite(b)>>,
                              IF e.partial < Len(b) THEN e.partial ELSE 0,
                              TRUE, FALSE)
             ELSE WriteResult(c, <<BaseWrite(b)>>, Len(b), FALSE, FALSE)

\* splitTLSConn.Write.  e tells how the base connection takes the calls:
\* w1 and w2 are the outcomes of the first and the second call made on it,
\* partial the byte count a failed pass-through call reports.  Slicing the
\* buffer beyond its length panics before anything is written.
Write(conn, b, e) ==
    LET c == [conn EXCEPT !.writeCnt = @ + 1]
    IN  IF isClientHello(c, b)
        THEN IF c.firstChunkSize > Len(b)
             THEN WriteResult(c, <<>>, 0, FALSE, TRUE)
             ELSE LET first == Slice(b, 0, c.firstChunkSize)
                      second == Slice(b, c.firstChunkSize, Len(b))
                      pause == IF c.delay > 0 THEN <<Sleep(c.delay)>> ELSE <<>>
                  IN  IF e.w1 = "err"
                      THEN WriteResult(c, <<BaseWrite(first)>>, 0, TRUE, FALSE)
                      ELSE IF e.w2 = "err"
                      THEN WriteResult(c, <<BaseWrite(first)>> \o pause \o
                                          <<BaseWrite(second)>>,
                                       Len(first), TRUE, FALSE)
                      ELSE WriteResult(c, <<BaseWrite(first)>> \o pause \o
                                          <<BaseWrite(second)>>,
                                       Len(first) + Len(second), FALSE, FALSE)
        ELSE IF e.w1 = "err"
             THEN WriteResult(c, <<BaseWrite(b)>>,
                              IF e.partial < Len(b) THEN e.partial ELSE 0,
                              TRUE, FALSE)
             ELSE WriteResult(c, <<BaseWrite(b)>>, Len(b), FALSE, FALSE)

(***************************************************************************)
(* Dialer chain (dialer, proxy, connectto, splittls)                       *)
(***************************************************************************)
\* A connection: the network and the address the socket was opened to, the
\* address a proxy tunnels it to (NoAddr without a proxy), whether it is
\* wrapped in a splitTLSConn, whether it is a net.PacketConn, and the TLS
\* layer its outermost object is ("none", "proxy" for the *tls.Conn of the
\* session with an HTTPS proxy, "tls", "ctls" or "quic") with the state of
\* that TLS session.  id tells connections apart; 0 is the nil connection.
\*
\* The zero tls.ConnectionState
NoState ==
    [HandshakeComplete |-> FALSE, Version |-> "", NegotiatedProtocol |-> "",
     NegotiatedProtocolIsMutual |-> FALSE, ServerName |-> "", CipherSuite |-> "",
     DidResume |-> FALSE, PeerCertificates |-> <<>>]

\* the state of the TLS session a handshake that offered protos to the peer
\* established, the peer having selected the protocol number pick of them
SessionState(peer, serverName, protos, pick) ==
    [HandshakeComplete |-> TRUE, Version |-> "TLS 1.3",
     NegotiatedProtocol |-> IF pick \in DOMAIN protos THEN protos[pick] ELSE "",
     NegotiatedProtocolIsMutual |-> TRUE, ServerName |-> serverName,
     CipherSuite |-> "TLS_AES_128_GCM_SHA256", DidResume |-> FALSE,
     PeerCertificates |-> <<peer>>]

Conn(network, remote, tunnel, packet) ==
    [id |-> 1, network |-> network, remote |-> remote, tunnel |-> tunnel,
     split |-> FALSE, packet |-> packet, tls |-> "none", state |-> NoState,
     deadline |-> 0]

NilConn == [Conn("", NoAddr, NoAddr, FALSE) EXCEPT !.id = 0]

\* One stage of a dial function: a dialer.DialFunc is the sequence of its
\* stages, the outermost first; each stage calls the rest of the sequence as
\* its base dial function.
Stage(name, proxyURL, connectTo, firstChunkSize, delay) ==
    [stage |-> name, proxyURL |-> proxyURL, connectTo |-> connectTo,
     firstChunkSize |-> firstChunkSize, delay |-> delay, connectTimeout |-> 0]

\* dialer.NewDirect(...).Dial
DirectStage == Stage("Direct", NoURL, EmptyMap, 0, 0)

\* proxy.NewProxyDialer: SOCKS5 proxies get the port 1080 and HTTP and HTTPS
\* proxies the ports 80 and 443 when the URL names none; proxy.FromURL knows
\* no other scheme.  connectTimeout is in seconds.
NewProxyDialer(proxyURL, connectTimeout) ==
    LET port(default) == IF proxyURL.Port = "" THEN default ELSE proxyURL.Port
        withPort(default) == [proxyURL EXCEPT !.Port = port(default)]
        proxy(default) == [Stage("Proxy", withPort(default), EmptyMap, 0, 0)
                              EXCEPT !.connectTimeout = connectTimeout]
    IN  CASE proxyURL.Scheme \in {"socks5", "socks5h"} ->
                [err |-> FALSE, d |-> proxy("1080")]
          [] proxyURL.Scheme = "http" -> [err |-> FALSE, d |-> proxy("80")]
          [] proxyURL.Scheme = "https" -> [err |-> FALSE, d |-> proxy("443")]
          [] OTHER -> [err |-> TRUE, d |-> DirectStage]

\* createDialFunc that wraps the connection for TLS-Split before it applies
\* --connect-to
createDialFuncSplitFirst(c) ==
    LET direct == <<DirectStage>>
        proxyDialer == NewProxyDialer(c.ProxyURL, c.ConnectTimeout)
        proxy == IF c.ProxyURL # NoURL THEN <<proxyDialer.d>> \o direct
                 ELSE direct
        split == IF c.TLSSplitChunkSize > 0
                 THEN <<Stage("TLSSplit", NoURL, EmptyMap, c.TLSSplitChunkSize,
                              c.TLSSplitDelay)>> \o proxy
                 ELSE proxy
        connectTo == IF Cardinality(DOMAIN c.ConnectTo) > 0
                     THEN <<Stage("ConnectTo", NoURL, c.ConnectTo, 0, 0)>> \o split
                     ELSE split
    IN  IF c.ProxyURL # NoURL /\ proxyDialer.err THEN [err |-> TRUE, dial |-> <<>>]
        ELSE [err |-> FALSE, dial |-> connectTo]

\* createDialFunc that applies --connect-to before the proxy
createDialFuncConnectToFirst(c) ==
    LET direct == <<DirectStage>>
        connectTo == IF Cardinality(DOMAIN c.ConnectTo) > 0
                     THEN <<Stage("ConnectTo", NoURL, c.ConnectTo, 0, 0)>> \o direct
                     ELSE direct
        proxyDialer == NewProxyDialer(c.ProxyURL, c.ConnectTimeout)
        proxy == IF c.ProxyURL # NoURL THEN <<proxyDialer.d>> \o connectTo
                 ELSE connectTo
        split == IF c.TLSSplitChunkSize > 0
                 THEN <<Stage("TLSSplit", NoURL, EmptyMap, c.TLSSplitChunkSize,
                              c.TLSSplitDelay)>> \o proxy
                 ELSE proxy
    IN  IF c.ProxyURL # NoURL /\ proxyDialer.err THEN [err |-> TRUE, dial |-> <<>>]
        ELSE [err |-> FALSE, dial |-> split]

\* createDialFunc creates the dial function that implements all the logic
\* configured by cfg
createDialFunc(c) ==
    LET direct == <<DirectStage>>
        proxyDialer == NewProxyDialer(c.ProxyURL, c.ConnectTimeout)
        proxy == IF c.ProxyURL # NoURL THEN <<proxyDialer.d>> \o direct
                 ELSE direct
        connectTo == IF Cardinality(DOMAIN c.ConnectTo) > 0
                     THEN <<Stage("ConnectTo", NoURL, c.ConnectTo, 0, 0)>> \o proxy
                     ELSE proxy
        split == IF c.TLSSplitChunkSize > 0
                 THEN <<Stage("TLSSplit", NoURL, EmptyMap, c.TLSSplitChunkSize,
                              c.TLSSplitDelay)>> \o connectTo
                 ELSE connectTo
    IN  IF c.ProxyURL # NoURL /\ proxyDialer.err THEN [err |-> TRUE, dial |-> <<>>]
        ELSE [err |-> FALSE, dial |-> split]

\* What a dial did: the connection it returned (NilConn with an error), the
\* stages it entered with the network and address each was called with, the
\* CONNECT requests sent, the TLS handshakes made with a proxy, the DNS
\* exchanges, and the trace of its events in the order they happened.
DialResult(conn, err, calls, connect, handshakes, asked, trace) ==
    [conn |-> conn, err |-> err, calls |-> calls, connect |-> connect,
     handshakes |-> handshakes, asked |-> asked, trace |-> trace]

DialCall(stage, network, addr) ==
    [stage |-> stage, network |-> network, addr |-> addr]

TLSHandshake(layer, path) == [layer |-> layer, path |-> path]

\* An event of a dial: the Resolver is asked for the addresses of host
\* ("lookup"), a socket is opened to host ("socket"), the TLS handshake with
\* the proxy at host is made ("handshake"), the CONNECT request is written to
\* it ("write"), the connection to host is closed ("close")
Event(kind, host) == [kind |-> kind, host |-> host]

\* the event that the proxy at host answers CONNECT with the status
Response(host, status) == [kind |-> "response", host |-> host, status |-> status]

\* the event that the Resolver returned the addresses ips for host
Resolved(host, ips) == [kind |-> "resolved", host |-> host, ips |-> ips]

\* the event that net.Dial is called with the address ip of host
Connect(host, ip) == [kind |-> "connect", host |-> host, ip |-> ip]

\* Direct.Dial that goes on to the next address when the first cannot be
\* connected to
DirectConnectNext(look, network, addr, e) ==
    LET call == <<DialCall("Direct", network, addr)>>
        lookup == <<Event("lookup", addr[1])>>
        first == lookup \o <<Resolved(addr[1], look.ipAddresses),
                             Connect(addr[1], look.ipAddresses[1])>>
    IN  IF look.err # NilErr
        THEN DialResult(NilConn, "resolve", call, <<>>, <<>>, look.asked, lookup)
        ELSE IF ~e.connect /\ Len(look.ipAddresses) < 2
        THEN DialResult(NilConn, "connect", call, <<>>, <<>>, look.asked, first)
        ELSE IF ~e.connect
        THEN DialResult(Conn(network, JoinHostPort(look.ipAddresses[2], addr[2]),
                             NoAddr, network = "udp"),
                        "", call, <<>>, <<>>, look.asked,
                        first \o <<Connect(addr[1], look.ipAddresses[2]),
                                   Event("socket", addr[1])>>)
        ELSE DialResult(Conn(network, JoinHostPort(look.ipAddresses[1], addr[2]),
                             NoAddr, network = "udp"),
                        "", call, <<>>, <<>>, look.asked,
                        first \o <<Event("socket", addr[1])>>)

\* Direct.Dial once the host is looked up: connects to the first address.
\* e.connect is the outcome of net.Dial.
DirectConnect(look, network, addr, e) ==
    LET call == <<DialCall("Direct", network, addr)>>
        lookup == <<Event("lookup", addr[1])>>
        first == lookup \o <<Resolved(addr[1], look.ipAddresses),
                             Connect(addr[1], look.ipAddresses[1])>>
    IN  IF look.err # NilErr
        THEN DialResult(NilConn, "resolve", call, <<>>, <<>>, look.asked, lookup)
        ELSE IF ~e.connect
        THEN DialResult(NilConn, "connect", call, <<>>, <<>>, look.asked, first)
        ELSE DialResult(Conn(network, JoinHostPort(look.ipAddresses[1], addr[2]),
                             NoAddr, network = "udp"),
                        "", call, <<>>, <<>>, look.asked,
                        first \o <<Event("socket", addr[1])>>)

\* Direct.Dial: resolves the host and connects to the first address
DirectDial(c, network, addr, e) ==
    DirectConnect(LookupHost(c, e.net, addr[1]), network, addr, e)

\* connectto.CreateDialFunc's dial function that looks the mapped address up
\* again
ConnectToAddrTwice(connectTo, addr) ==
    IF addr \in DOMAIN connectTo
    THEN IF connectTo[addr] \in DOMAIN connectTo THEN connectTo[connectTo[addr]]
         ELSE connectTo[addr]
    ELSE addr

\* connectto.CreateDialFunc's dial function, up to the call of baseDial:
\* the address baseDial is called with
ConnectToAddr(connectTo, addr) ==
    IF addr \in DOMAIN connectTo THEN connectTo[addr] ELSE addr

\* socks5Dialer.Dial that connects to addr itself when the proxy cannot be
\* reached
Socks5DialFallback(proxyURL, network, addr, e) ==
    LET call == <<DialCall("Proxy", network, addr)>>
    IN  IF ~e.connect
        THEN DialResult(Conn(network, addr, NoAddr, network = "udp"),
                        "", call, <<>>, <<>>, <<>>, <<Event("socket", addr[1])>>)
        ELSE DialResult(Conn(network, JoinHostPort(proxyURL.Hostname, proxyURL.Port),
                             addr, TRUE),
                        "", call, <<>>, <<>>, <<>>,
                        <<Event("socket", proxyURL.Hostname)>>)

\* socks5Dialer.Dial: the SOCKS5 client connects to the proxy on its own (the
\* forward dialer and with it the Resolver are not used) and asks it to relay
\* to addr
Socks5Dial(proxyURL, network, addr, e) ==
    LET call == <<DialCall("Proxy", network, addr)>>
    IN  IF ~e.connect
        THEN DialResult(NilConn, "socks5", call, <<>>, <<>>, <<>>, <<>>)
        ELSE DialResult(Conn(network, JoinHostPort(proxyURL.Hostname, proxyURL.Port),
                             addr, TRUE),
                        "", call, <<>>, <<>>, <<>>,
                        <<Event("socket", proxyURL.Hostname)>>)

\* resp.Status of the proxy's response
Status(code) ==
    CASE code = 200 -> "200 Connection established"
      [] code = 407 -> "407 Proxy Authentication Required"
      [] OTHER -> "502 Bad Gateway"

\* SetDeadline on the connection to host: the deadline is secs seconds from
\* now, or is cleared when secs is 0
Deadline(host, secs) == [kind |-> "deadline", host |-> host, secs |-> secs]

\* the deadline of the TLS handshake with an HTTPS proxy, in seconds
tlsTimeout(d) == IF d.connectTimeout > 0 THEN d.connectTimeout ELSE 30

\* What the TLS part of httpProxyDialer.Dial did on the connection the
\* forward dialer returned: the error, the proxy connection to go on with,
\* the handshakes and the events.
ProxyConn(err, conn, handshakes, trace) ==
    [err |-> err, conn |-> conn, handshakes |-> handshakes, trace |-> trace]

\* the TLS part of httpProxyDialer.Dial that leaves the handshake deadline
\* on the connection
proxyTLSKeepDeadline(d, fwd, e) ==
    LET host == d.proxyURL.Hostname
        handshake == <<TLSHandshake("proxy", "tls")>>
        started == fwd.trace \o <<Deadline(host, tlsTimeout(d)),
                                  Event("handshake", host)>>
    IN  IF d.proxyURL.Scheme # "https"
        THEN ProxyConn("", fwd.conn, <<>>, fwd.trace)
        ELSE IF e.deadline = "set"
        THEN ProxyConn("failed to set TLS handshake deadline", NilConn, <<>>,
                       fwd.trace \o <<Event("close", host)>>)
        ELSE IF ~e.proxyTLS
        THEN ProxyConn("TLS handshake with HTTPS proxy failed", NilConn, handshake,
                       started \o <<Event("close", host)>>)
        ELSE ProxyConn("",
                       [fwd.conn EXCEPT
                           !.tls = "proxy",
                           !.state = SessionState("proxy", host, <<>>, 1),
                           !.deadline = tlsTimeout(d)],
                       handshake, started)

\* The TLS part of httpProxyDialer.Dial: for an HTTPS proxy the handshake
\* runs under a deadline of its own, which is reset afterwards.
\* e.deadline tells whether setting ("set") or resetting ("reset") the
\* deadline fails, e.proxyTLS is the outcome of the handshake.
\* log.OnCloserError closes the connection.
proxyTLS(d, fwd, e) ==
    LET host == d.proxyURL.Hostname
        handshake == <<TLSHandshake("proxy", "tls")>>
        started == fwd.trace \o <<Deadline(host, tlsTimeout(d)),
                                  Event("handshake", host)>>
    IN  IF d.proxyURL.Scheme # "https"
        THEN ProxyConn("", fwd.conn, <<>>, fwd.trace)
        ELSE IF e.deadline = "set"
        THEN ProxyConn("failed to set TLS handshake deadline", NilConn, <<>>,
                       fwd.trace \o <<Event("close", host)>>)
        ELSE IF ~e.proxyTLS
        THEN ProxyConn("TLS handshake with HTTPS proxy failed", NilConn, handshake,
                       started \o <<Event("close", host)>>)
        ELSE IF e.deadline = "reset"
        THEN ProxyConn("failed to reset TLS connection deadline", NilConn, handshake,
                       started \o <<Event("close", host)>>)
        ELSE ProxyConn("",
                       [fwd.conn EXCEPT
                           !.tls = "proxy",
                           !.state = SessionState("proxy", host, <<>>, 1),
                           !.deadline = 0],
                       handshake, started \o <<Deadline(host, 0)>>)

\* the CONNECT part of httpProxyDialer.Dial that takes the tunnel as usable
\* whatever status the proxy answers with
connectRequestAnyStatus(d, network, addr, fwd, p, e) ==
    LET call == <<DialCall("Proxy", network, addr)>>
        host == d.proxyURL.Hostname
        written == p.trace \o <<Event("write", host)>>
    IN  IF p.err # ""
        THEN DialResult(NilConn, p.err, call \o fwd.calls, <<>>, p.handshakes,
                        fwd.asked, p.trace)
        ELSE IF e.io = "write"
        THEN DialResult(NilConn, "failed to write CONNECT request to proxy",
                        call \o fwd.calls, <<>>, p.handshakes, fwd.asked,
                        written \o <<Event("close", host)>>)
        ELSE IF e.io = "read"
        THEN DialResult(NilConn, "failed to read response from proxy",
                        call \o fwd.calls, <<addr>>, p.handshakes, fwd.asked,
                        written \o <<Event("close", host)>>)
        ELSE DialResult([p.conn EXCEPT !.tunnel = addr],
                        "", call \o fwd.calls, <<addr>>, p.handshakes, fwd.asked,
                        written \o <<Response(host, Status(e.status))>>)

\* The CONNECT part of httpProxyDialer.Dial on the proxy connection p.
\* e.io tells whether writing the CONNECT request ("write") or reading the
\* response ("read") fails, and e.status is the status of the response.
connectRequest(d, network, addr, fwd, p, e) ==
    LET call == <<DialCall("Proxy", network, addr)>>
        host == d.proxyURL.Hostname
        written == p.trace \o <<Event("write", host)>>
    IN  IF p.err # ""
        THEN DialResult(NilConn, p.err, call \o fwd.calls, <<>>, p.handshakes,
                        fwd.asked, p.trace)
        ELSE IF e.io = "write"
        THEN DialResult(NilConn, "failed to write CONNECT request to proxy",
                        call \o fwd.calls, <<>>, p.handshakes, fwd.asked,
                        written \o <<Event("close", host)>>)
        ELSE IF e.io = "read"
        THEN DialResult(NilConn, "failed to read response from proxy",
                        call \o fwd.calls, <<addr>>, p.handshakes, fwd.asked,
                        written \o <<Event("close", host)>>)
        ELSE IF e.status # 200
        THEN DialResult(NilConn, "proxy connection failed: " \o Status(e.status),
                        call \o fwd.calls, <<addr>>, p.handshakes, fwd.asked,
                        written \o <<Response(host, Status(e.status)),
                                     Event("close", host)>>)
        ELSE DialResult([p.conn EXCEPT !.tunnel = addr],
                        "", call \o fwd.calls, <<addr>>, p.handshakes, fwd.asked,
                        written \o <<Response(host, Status(e.status))>>)

\* httpProxyDialer.Dial, the forward dial of the proxy address having failed
proxyUnreachable(network, addr, fwd) ==
    DialResult(NilConn, "failed to connect to proxy: " \o fwd.err,
               <<DialCall("Proxy", network, addr)>> \o fwd.calls, <<>>, <<>>,
               fwd.asked, fwd.trace)

\* httpProxyDialer.Dial that takes the tunnel as usable whatever status the
\* proxy answers CONNECT with
HTTPProxyTunnelAnyStatus(d, network, addr, fwd, e) ==
    IF fwd.err # "" THEN proxyUnreachable(network, addr, fwd)
    ELSE connectRequestAnyStatus(d, network, addr, fwd, proxyTLS(d, fwd, e), e)

\* httpProxyDialer.Dial that does not reset the deadline of the handshake
HTTPProxyTunnelKeepDeadline(d, network, addr, fwd, e) ==
    IF fwd.err # "" THEN proxyUnreachable(network, addr, fwd)
    ELSE connectRequest(d, network, addr, fwd, proxyTLSKeepDeadline(d, fwd, e), e)

\* httpProxyDialer.Dial of the proxy dialer d, given what the forward dial
\* of the proxy address did
HTTPProxyTunnel(d, network, addr, fwd, e) ==
    IF fwd.err # "" THEN proxyUnreachable(network, addr, fwd)
    ELSE connectRequest(d, network, addr, fwd, proxyTLS(d, fwd, e), e)

\* dial[i..] called with (network, addr): the dial function made of the
\* stages from i on
RECURSIVE DialFrom(_, _, _, _, _, _)
DialFrom(dial, i, c, network, addr, e) ==
    LET s == dial[i]
    IN  CASE s.stage = "Direct" -> DirectDial(c, network, addr, e)
          [] s.stage = "Proxy" ->
                IF s.proxyURL.Scheme \in {"socks5", "socks5h"}
                THEN Socks5Dial(s.proxyURL, network, addr, e)
                ELSE IF network \notin {"tcp", "tcp4", "tcp6"}
                THEN DialResult(NilConn, "HTTP proxy does not support " \o network,
                                <<DialCall("Proxy", network, addr)>>, <<>>, <<>>, <<>>,
                                <<>>)
                ELSE HTTPProxyTunnel(s, network, addr,
                         DialFrom(dial, i + 1, c, "tcp",
                                  JoinHostPort(s.proxyURL.Hostname, s.proxyURL.Port), e),
                         e)
          [] s.stage = "ConnectTo" ->
                [DialFrom(dial, i + 1, c, network, ConnectToAddr(s.connectTo, addr), e)
                    EXCEPT !.calls = <<DialCall("ConnectTo", network, addr)>> \o @]
          [] s.stage = "TLSSplit" ->
                [DialFrom(dial, i + 1, c, network, addr, e)
                    EXCEPT !.calls = <<DialCall("TLSSplit", network, addr)>> \o @,
                           !.conn = IF @ = NilConn THEN @
                                    ELSE [@ EXCEPT !.split = TRUE, !.packet = FALSE,
                                                   !.tls = "none", !.state = NoState]]

\* a call of the dial function
Dial(dial, c, network, addr, e) == DialFrom(dial, 1, c, network, addr, e)

(***************************************************************************)
(* clientDialer and the transports                                         *)
(***************************************************************************)
\* websocket.IsWebSocket
IsWebSocket(u) == u.Scheme = "ws" \/ u.Scheme = "wss"

\* createTLSConfig that offers HTTP/1.1 only by default
createTLSConfigDefaultHTTP11(hostname, c) ==
    [ServerName |-> IF c.TLSServerName # "" THEN c.TLSServerName ELSE hostname,
     NextProtos |->
         IF IsWebSocket(c.RequestURL) THEN <<"http/1.1">>
         ELSE IF c.ForceHTTP11 THEN <<"http/1.1">>
         ELSE IF c.ForceHTTP2 THEN <<"h2">>
         ELSE IF c.ForceHTTP3 THEN <<"h3">>
         ELSE <<"http/1.1">>]

\* createTLSConfig that names the server the connection is redirected to
createTLSConfigRedirected(hostname, c) ==
    LET target == JoinHostPort(hostname, "443")
        name == IF c.TLSServerName # "" THEN c.TLSServerName
                ELSE IF target \in DOMAIN c.ConnectTo THEN c.ConnectTo[target][1]
                ELSE hostname
    IN  [ServerName |-> name,
         NextProtos |->
             IF IsWebSocket(c.RequestURL) THEN <<"http/1.1">>
             ELSE IF c.ForceHTTP11 THEN <<"http/1.1">>
             ELSE IF c.ForceHTTP2 THEN <<"h2">>
             ELSE IF c.ForceHTTP3 THEN <<"h3">>
             ELSE <<"h2", "http/1.1">>]

\* createTLSConfig creates the TLS config based on the configuration
createTLSConfig(hostname, c) ==
    [ServerName |-> IF c.TLSServerName # "" THEN c.TLSServerName ELSE hostname,
     NextProtos |->
         IF IsWebSocket(c.RequestURL) THEN <<"http/1.1">>
         ELSE IF c.ForceHTTP11 THEN <<"http/1.1">>
         ELSE IF c.ForceHTTP2 THEN <<"h2">>
         ELSE IF c.ForceHTTP3 THEN <<"h3">>
         ELSE <<"h2", "http/1.1">>]

\* createHTTPTransport that prefers HTTP/2 when both are forced
createHTTPTransportH2First(c) ==
    IF c.ForceHTTP2 THEN "h2"
    ELSE IF c.ForceHTTP3 THEN "h3"
    ELSE "h12"

\* createHTTPTransport: the H3 transport ("h3"), the forced-H2 transport
\* ("h2") or the http.Transport that negotiates HTTP/1.1 or HTTP/2 ("h12")
createHTTPTransport(c) ==
    IF c.ForceHTTP3 THEN "h3"
    ELSE IF c.ForceHTTP2 THEN "h2"
    ELSE "h12"

\* NewTransport: the clientDialer (dial function, TLS config, last connection)
\* and the transport built on it.  dials counts the dials made with it.
NewTransport(c) ==
    LET f == createDialFunc(c)
    IN  IF f.err THEN [err |-> TRUE, t |-> [kind |-> "none", dial |-> <<>>,
                                           tlsConfig |-> [ServerName |-> "",
                                                          NextProtos |-> <<>>],
                                           conn |-> NilConn, dials |-> 0]]
        ELSE [err |-> FALSE,
              t |-> [kind |-> createHTTPTransport(c),
                     dial |-> f.dial,
                     tlsConfig |-> createTLSConfig(c.RequestURL.Hostname, c),
                     conn |-> NilConn,
                     dials |-> 0]]

\* NewRequest: the URL the request is sent to (ws and wss requests are sent
\* as http and https) and its Host header
NewRequest(c) ==
    [URL |-> [c.RequestURL EXCEPT
                !.Scheme = IF @ = "ws" THEN "http"
                           ELSE IF @ = "wss" THEN "https"
                           ELSE @],
     Host |-> JoinHostPort(c.RequestURL.Hostname, c.RequestURL.Port)]

\* the ClientHello parameters of a handshake made with tlsConfig itself
\* (crypto/tls, QUIC)
PlainHello(tlsConfig) ==
    [NoHello EXCEPT !.sent = TRUE, !.ServerName = tlsConfig.ServerName,
                    !.NextProtos = tlsConfig.NextProtos]

\* What a method of clientDialer did: the connection it returned, d.conn
\* afterwards, the error, whether d.dial returned a connection, what d.dial
\* did, the handshakes, the ClientHello parameters of the handshake with the
\* server, the DNS exchanges and the warnings.  No method of clientDialer
\* closes a connection, so the events are those of d.dial.
DialerResult(method, ret, dconn, err, r, handshakes, hs, asked, warnings) ==
    [method |-> method, ret |-> ret, dconn |-> dconn, err |-> err,
     dialed |-> r.err = "", calls |-> r.calls, connect |-> r.connect,
     handshakes |-> handshakes, hello |-> hs, asked |-> asked,
     warnings |-> warnings, trace |-> r.trace]

\* the connection of the dial after the ones d has made
Opened(d, conn) == [conn EXCEPT !.id = d.dials + 1]

NoDial == DialResult(NilConn, "no dial", <<>>, <<>>, <<>>, <<>>, <<>>)

\* handshakeTLS: the handshake of crypto/tls with d.tlsConfig.  e.handshake
\* is the outcome of the handshake with the server.
\* e.pick is the protocol the server selects of those offered.
handshakeTLS(d, e) ==
    [path |-> "tls", conn |-> e.handshake, hello |-> PlainHello(d.tlsConfig),
     asked |-> <<>>, warnings |-> <<>>,
     state |-> SessionState("server", d.tlsConfig.ServerName,
                            d.tlsConfig.NextProtos, e.pick)]

\* the *ctls.Conn of the handshake h, in its connWrapper
ctlsConn(h, e) ==
    [path |-> "ctls",
     state |-> SessionState("server", h.hello.ServerName, h.hello.NextProtos,
                            e.pick)] @@ h

\* handshakeCTLS: cfcrypto.Handshake
handshakeCTLS(d, c, e) ==
    ctlsConn(Handshake(d.tlsConfig, c, e.net, e.handshake), e)

\* connWrapper.ConnectionState that leaves the negotiated protocol out
connWrapperStateNoProtocol(innerState) ==
    [NoState EXCEPT
        !.Version = innerState.Version,
        !.ServerName = innerState.ServerName,
        !.CipherSuite = innerState.CipherSuite,
        !.DidResume = innerState.DidResume,
        !.HandshakeComplete = innerState.HandshakeComplete,
        !.PeerCertificates = innerState.PeerCertificates]

\* connWrapper.ConnectionState: a tls.ConnectionState filled field by field
\* from the state of the *ctls.Conn
connWrapperState(innerState) ==
    [NoState EXCEPT
        !.Version = innerState.Version,
        !.NegotiatedProtocol = innerState.NegotiatedProtocol,
        !.ServerName = innerState.ServerName,
        !.CipherSuite = innerState.CipherSuite,
        !.DidResume = innerState.DidResume,
        !.HandshakeComplete = innerState.HandshakeComplete,
        !.PeerCertificates = innerState.PeerCertificates]

\* conn has a ConnectionState method: *tls.Conn and connWrapper have, the
\* connections of net, udpConn, socksConn and splitTLSConn have not
IsConnectionStater(conn) == conn.tls \in {"proxy", "tls", "ctls"}

\* conn.ConnectionState()
ConnectionState(conn) ==
    IF conn.tls = "ctls" THEN connWrapperState(conn.state) ELSE conn.state

\* DialTLSContext after d.dial returned r: an error of the dial is returned
\* as it is and d.conn is left alone; otherwise d.conn is what the handshake
\* h on the dialed connection returned
TLSHandshaken(d, r, h) ==
    IF r.err # ""
    THEN DialerResult("DialTLSContext", NilConn, d.conn, r.err, r,
                      r.handshakes, NoHello, r.asked, <<>>)
    ELSE DialerResult("DialTLSContext",
                      IF h.conn
                      THEN [Opened(d, r.conn) EXCEPT !.tls = h.path, !.state = h.state]
                      ELSE NilConn,
                      IF h.conn
                      THEN [Opened(d, r.conn) EXCEPT !.tls = h.path, !.state = h.state]
                      ELSE NilConn,
                      IF h.conn THEN "" ELSE "handshake", r,
                      r.handshakes \o <<TLSHandshake("server", h.path)>>,
                      h.hello, r.asked \o h.asked, h.warnings)

\* DialTLSContext that takes the enhanced path for ECH only
DialTLSContextECHOnly(d, c, network, addr, e) ==
    TLSHandshaken(d, Dial(d.dial, c, network, addr, e),
              IF c.ECH THEN handshakeCTLS(d, c, e) ELSE handshakeTLS(d, e))

\* DialTLSContext establishes a new TLS connection to the specified address:
\* cfcrypto.Handshake when ECH, ECH grease or post-quantum is configured,
\* crypto/tls otherwise
DialTLSContext(d, c, network, addr, e) ==
    TLSHandshaken(d, Dial(d.dial, c, network, addr, e),
              IF c.ECH \/ c.ECHGrease \/ c.PostQuantum
              THEN handshakeCTLS(d, c, e) ELSE handshakeTLS(d, e))

\* DialContext after d.dial returned r: d.conn is what d.dial returned
Dialed(d, r) ==
    DialerResult("DialContext",
                 IF r.err = "" THEN Opened(d, r.conn) ELSE NilConn,
                 IF r.err = "" THEN Opened(d, r.conn) ELSE NilConn,
                 r.err, r, r.handshakes, NoHello, r.asked, <<>>)

\* DialContext establishes a new connection to the specified address
DialContext(d, c, network, addr, e) ==
    Dialed(d, Dial(d.dial, c, network, addr, e))

\* DialQUIC after d.dial returned r: the dialed connection must be a
\* net.PacketConn with a UDP remote address; d.conn is not assigned.
\* e.udpAddr tells whether the remote address of a SOCKS5 relay is a
\* *net.UDPAddr.
QUICDialed(d, r, e) ==
    IF r.err # ""
    THEN DialerResult("DialQUIC", NilConn, d.conn, r.err, r, r.handshakes,
                      NoHello, r.asked, <<>>)
    ELSE IF ~r.conn.packet
    THEN DialerResult("DialQUIC", NilConn, d.conn,
                      "dialer returned not a PacketConn", r, r.handshakes,
                      NoHello, r.asked, <<>>)
    ELSE IF r.conn.tunnel # NoAddr /\ ~e.udpAddr
    THEN DialerResult("DialQUIC", NilConn, d.conn,
                      "dialer returned not a UDPAddr", r, r.handshakes,
                      NoHello, r.asked, <<>>)
    ELSE DialerResult("DialQUIC",
                      IF e.handshake
                      THEN [Opened(d, r.conn) EXCEPT
                               !.tls = "quic",
                               !.state = SessionState("server", d.tlsConfig.ServerName,
                                                      d.tlsConfig.NextProtos, e.pick)]
                      ELSE NilConn,
                      d.conn,
                      IF e.handshake THEN "" ELSE "handshake", r,
                      r.handshakes \o <<TLSHandshake("server", "quic")>>,
                      PlainHello(d.tlsConfig), r.asked, <<>>)

\* the QUIC dial r started with the ClientHello parameters of the handshake h
WithHello(r, h) ==
    IF r.hello.sent
    THEN [r EXCEPT !.hello = h.hello, !.asked = @ \o h.asked,
                   !.warnings = h.warnings]
    ELSE r

\* DialQUIC that hands the parameters of the enhanced handshake, ECH
\* included, to the QUIC handshake
DialQUICECH(d, c, addr, e) ==
    WithHello(QUICDialed(d, Dial(d.dial, c, "udp", addr, e), e),
              Handshake(d.tlsConfig, c, e.net, e.handshake))

\* DialQUIC establishes a new QUIC connection to the specified address
DialQUIC(d, c, addr, e) == QUICDialed(d, Dial(d.dial, c, "udp", addr, e), e)

\* the port of the URL, or the default port of its scheme
PortOf(u) ==
    IF u.Port # "" THEN u.Port
    ELSE IF u.Scheme = "http" THEN "80"
    ELSE IF u.Scheme = "https" THEN "443"
    ELSE ""

\* the request cannot be sent by the transport: nothing is dialed
Unsupported(d) ==
    DialerResult("none", NilConn, d.conn, "unsupported protocol scheme", NoDial,
                 <<>>, NoHello, <<>>, <<>>)

\* The RoundTrip of the base transport: it dials a connection for the
\* request (keep-alives are disabled) and sends the request on it.
\*  - http.Transport dials with DialContext for http and with DialTLSContext
\*    for https;
\*  - h2Transport always dials with DialTLSContext;
\*  - http3.RoundTripper takes https only and dials with DialQUIC.
baseRoundTrip(t, c, req, e) ==
    LET addr == JoinHostPort(req.URL.Hostname, PortOf(req.URL))
    IN  CASE t.kind = "h12" ->
                IF req.URL.Scheme = "http" THEN DialContext(t, c, "tcp", addr, e)
                ELSE IF req.URL.Scheme = "https"
                THEN DialTLSContext(t, c, "tcp", addr, e)
                ELSE Unsupported(t)
          [] t.kind = "h2" -> DialTLSContext(t, c, "tcp", addr, e)
          [] t.kind = "h3" ->
                IF req.URL.Scheme = "https" THEN DialQUIC(t, c, addr, e)
                ELSE Unsupported(t)

\* resp.TLS as the base transport leaves it (<<>> is nil), r being what its
\* dial did: http.Transport sets it for the *tls.Conn DialTLSContext
\* returned, http2 for a connection with a ConnectionState method and http3
\* from the QUIC connection.
baseTLS(kind, r) ==
    CASE kind = "h12" ->
            IF r.method = "DialTLSContext" /\ r.ret.tls = "tls"
            THEN <<r.ret.state>> ELSE <<>>
      [] kind = "h2" ->
            IF IsConnectionStater(r.ret) THEN <<ConnectionState(r.ret)>> ELSE <<>>
      [] kind = "h3" -> <<r.ret.state>>

\* transport.RoundTrip after the base transport returned: resp.TLS is set
\* from t.d.conn when that has a ConnectionState method
Responded(kind, r) ==
    [TLS |-> IF r.err # "" THEN <<>>
             ELSE IF IsConnectionStater(r.dconn) THEN <<ConnectionState(r.dconn)>>
             ELSE baseTLS(kind, r)] @@ r

\* transport.RoundTrip
RoundTrip(t, c, req, e) == Responded(t.kind, baseRoundTrip(t, c, req, e))

\* Transport.Conn returns the last established connection using this
\* transport
TransportConn(t) == t.conn

(***************************************************************************)
(* Inputs                                                                  *)
(***************************************************************************)
\* the --resolve command lines tried, valid and invalid
ResolveOptions ==
    { <<>>,
      <<ResolveArg(3, "example.org", <<"127.0.0.1">>)>>,
      <<ResolveArg(3, "example.org", <<"127.0.0.1">>),
        ResolveArg(3, "*", <<"127.0.0.2", "::1">>)>>,
      <<ResolveArg(3, "example.org", <<"">>)>>,
      <<ResolveArg(3, "example.org", <<"127.0.0.1", "localhost">>)>>,
      <<ResolveArg(2, "example.org", <<>>)>> }

\* the --echconfig values tried: absent, well-formed, not base64
ECHConfigOptions == {"", "AEX+DQBB", "%%%"}

\* the request URL of the resolver and handshake runs
DefaultURL == URL("https", "example.org", "")

\* command lines of the resolver runs
ResolverOptions ==
    [Resolve : ResolveOptions, ECHConfig : ECHConfigOptions, ECH : {FALSE},
     ECHGrease : {FALSE}, PostQuantum : {FALSE},
     URL : {DefaultURL}, ProxyURL : {NoURL}, ConnectTo : {<<>>},
     TLSSplitHello : {<<>>}, HTTPv11 : {FALSE}, HTTPv2 : {FALSE},
     HTTPv3 : {FALSE}, TLSServerName : {""}, ConnectTimeout : {0}]

\* command lines of the handshake runs
HandshakeOptions ==
    [Resolve : {<<>>}, ECHConfig : ECHConfigOptions, ECH : BOOLEAN,
     ECHGrease : BOOLEAN, PostQuantum : BOOLEAN,
     URL : {DefaultURL}, ProxyURL : {NoURL}, ConnectTo : {<<>>},
     TLSSplitHello : {<<>>}, HTTPv11 : {FALSE}, HTTPv2 : {FALSE},
     HTTPv3 : {FALSE}, TLSServerName : {""}, ConnectTimeout : {0}]

\* the --tls-split-hello values tried
SplitOptions ==
    [Resolve : {<<>>}, ECHConfig : {""}, ECH : {FALSE},
     ECHGrease : {FALSE}, PostQuantum : {FALSE},
     URL : {DefaultURL}, ProxyURL : {NoURL}, ConnectTo : {<<>>},
     TLSSplitHello : {<<>>, <<"0", "0">>, <<"2", "0">>, <<"3", "50">>,
                      <<"7", "0">>, <<"x", "0">>, <<"5">>},
     HTTPv11 : {FALSE}, HTTPv2 : {FALSE}, HTTPv3 : {FALSE},
     TLSServerName : {""}, ConnectTimeout : {0}]

\* the first bytes of the buffers written: a ClientHello record, an
\* application data record, a handshake record of another protocol version
\* and a ServerHello record
Headers == {<<22, 3, 1>>, <<23, 3, 1>>, <<22, 2, 1>>, <<22, 3, 2>>}

\* the buffers written
Buffers == {Record(hdr, n) : hdr \in Headers, n \in 0..MaxLen}

\* how the base connection takes the calls of one Write
WriteEnvs == [w1 : {"ok", "err"}, w2 : {"ok", "err"}, partial : {0, 1}]

\* the base connection's Write calls among what a Write did
BaseWrites(out) == SelectSeq(out, LAMBDA x : x.ev = "write")

\* number of round trips followed on one transport
MaxRoundTrips == 2

\* the request URLs of the client runs
RequestURLs ==
    {URL("https", "example.org", ""), URL("http", "example.org", ""),
     URL("wss", "example.org", "")}

\* the --proxy values tried: none, an HTTP proxy on the default port, an
\* HTTPS proxy, SOCKS5 proxies and a scheme no proxy dialer exists for
ProxyURLs ==
    {NoURL, URL("http", "proxy.example", ""), URL("https", "proxy.example", "3128"),
     URL("socks5", "proxy.example", ""), URL("socks5h", "proxy.example", ""),
     URL("ftp", "proxy.example", "")}

\* --connect-to values that redirect the target
RedirectTarget ==
    <<<<"example.org", "443", "mapped.example", "8443">>,
      <<"example.org", "80", "mapped.example", "8080">>>>

\* --connect-to values that name the address of the proxy
RedirectProxy ==
    <<<<"proxy.example", "80", "elsewhere.example", "1">>,
      <<"proxy.example", "3128", "elsewhere.example", "1">>,
      <<"proxy.example", "1080", "elsewhere.example", "1">>>>

\* --connect-to values whose mapped address is itself redirected
RedirectChain ==
    <<<<"example.org", "443", "mapped.example", "8443">>,
      <<"mapped.example", "8443", "final.example", "9443">>>>

\* the --connect-to values tried
ConnectToOptions ==
    {<<>>, RedirectTarget, RedirectTarget \o RedirectProxy, RedirectChain,
     <<<<"example.org", "443", "mapped.example">>>>}

\* command lines that vary the dialer chain
ChainOptions ==
    [Resolve : {<<>>}, ECHConfig : {""}, ECH : {FALSE},
     ECHGrease : {FALSE}, PostQuantum : BOOLEAN,
     URL : RequestURLs, ProxyURL : ProxyURLs, ConnectTo : ConnectToOptions,
     TLSSplitHello : {<<>>, <<"2", "50">>},
     HTTPv11 : {FALSE}, HTTPv2 : {FALSE}, HTTPv3 : BOOLEAN,
     TLSServerName : {"", "sni.example"},
     ConnectTimeout : {0}]

\* command lines that vary the TLS options and the forced protocol
ProtocolOptions ==
    [Resolve : {<<>>}, ECHConfig : {"", "AEX+DQBB"}, ECH : BOOLEAN,
     ECHGrease : BOOLEAN, PostQuantum : BOOLEAN,
     URL : RequestURLs, ProxyURL : {NoURL}, ConnectTo : {<<>>},
     TLSSplitHello : {<<>>},
     HTTPv11 : BOOLEAN, HTTPv2 : BOOLEAN, HTTPv3 : BOOLEAN,
     TLSServerName : {""}, ConnectTimeout : {0}]

\* command lines that set the connect timeout of a dial through a proxy
TimeoutOptions ==
    [Resolve : {<<>>}, ECHConfig : {""}, ECH : {FALSE},
     ECHGrease : {FALSE}, PostQuantum : {FALSE},
     URL : {URL("https", "example.org", ""), URL("http", "example.org", "")},
     ProxyURL : {URL("http", "proxy.example", ""),
                 URL("https", "proxy.example", "3128")},
     ConnectTo : {<<>>}, TLSSplitHello : {<<>>},
     HTTPv11 : {FALSE}, HTTPv2 : {FALSE}, HTTPv3 : {FALSE},
     TLSServerName : {""}, ConnectTimeout : {5}]

\* command lines of the runs with concurrent round trips
ConcurrentOptions ==
    [Resolve : {<<>>}, ECHConfig : {""}, ECH : BOOLEAN,
     ECHGrease : {FALSE}, PostQuantum : {FALSE},
     URL : {URL("https", "example.org", ""), URL("http", "example.org", "")},
     ProxyURL : {NoURL}, ConnectTo : {<<>>}, TLSSplitHello : {<<>>},
     HTTPv11 : {FALSE}, HTTPv2 : BOOLEAN, HTTPv3 : {FALSE},
     TLSServerName : {""}, ConnectTimeout : {0}]

\* command lines of the client runs
ClientOptions == ChainOptions \cup ProtocolOptions \cup TimeoutOptions

\* every upstream answers with the outcome o
Always(o) == [u \in Upstreams |-> o]

\* the networks the client runs against: no upstream reachable; addresses
\* and an ECH configuration served; addresses served and no upstream
\* reachable for HTTPS queries
ClientNetworks ==
    {NoNetwork,
     [A |-> Always("addr"), AAAA |-> Always("addr"), HTTPS |-> Always("ok"),
      rrset |-> <<[type |-> "HTTPS", vals |-> <<"alpn", "echok">>]>>],
     [A |-> Always("addr"), AAAA |-> Always("empty"), HTTPS |-> Unreachable,
      rrset |-> NoNetwork.rrset]}

\* What the world does during one round trip: the DNS upstreams, net.Dial or
\* the SOCKS5 client connecting, the proxy's answer to CONNECT, the TLS
\* handshake with an HTTPS proxy, the handshake with the server, the kind of
\* the remote address of a SOCKS5 relay, setting and resetting the deadline
\* of the handshake with an HTTPS proxy.  An outcome that the configuration
\* never asks for is not varied.
Envs(c, t) ==
    [net : IF c.ECH /\ c.ECHConfigs = <<>> THEN ClientNetworks
           ELSE {n \in ClientNetworks : n.HTTPS = Unreachable},
     connect : BOOLEAN,
     status : IF c.ProxyURL.Scheme \in {"http", "https"} THEN {200, 407} ELSE {200},
     io : IF c.ProxyURL.Scheme \in {"http", "https"} THEN {"ok", "write", "read"}
          ELSE {"ok"},
     pick : 1..Len(t.tlsConfig.NextProtos),
     proxyTLS : IF c.ProxyURL.Scheme = "https" THEN BOOLEAN ELSE {TRUE},
     deadline : IF c.ProxyURL.Scheme = "https" THEN {"ok", "set", "reset"}
                ELSE {"ok"},
     handshake : BOOLEAN,
     udpAddr : IF c.ProxyURL.Scheme \in {"socks5", "socks5h"} /\ t.kind = "h3"
               THEN BOOLEAN
               ELSE {TRUE}]

\* the hostnames looked up
Hostnames ==
    {"127.0.0.1", "::1", "::ffff:127.0.0.1", "example.org", "example.net"}

\* the hostnames whose ECH configuration is looked up
ECHHostnames == {"example.org", "crypto.cloudflare.com"}

\* the tls.Config values handed to Handshake
TLSConfigs ==
    [ServerName : {"example.org"},
     NextProtos : {<<"h2", "http/1.1">>, <<"http/1.1">>, <<"h2">>}]

(***************************************************************************)
(* State                                                                   *)
(***************************************************************************)
VARIABLES
    pc,       \* "start", "failed" (ParseConfig error), "ready", "returned"
    cfg,      \* the *Config shared by the resolver and the dispatcher
    op,       \* the operation that returned last
    arg,      \* its hostname / server name argument
    tls,      \* the tls.Config argument of Handshake
    net,      \* the network the operation ran against
    hsOK,     \* whether the server completed the TLS handshake
    ret,      \* what the operation returned
    queries,  \* the DNS exchanges the operation made, in order
    log,      \* the warnings the operation wrote
    hello,    \* the ctls.Config the handshake was started with
    tr,       \* the Transport NewTransport built, with its clientDialer
    rt,       \* what the last RoundTrip did
    rts,      \* the RoundTrip calls that run concurrently on the Transport
    sconn,    \* a TLS-Split connection and what the last Write on it did
    rnd       \* the Rand of the TLS configuration and what was read from it

vars ==
    <<pc, cfg, op, arg, tls, net, hsOK, ret, queries, log, hello, tr, rt, rts,
      sconn, rnd>>

\* the state of one resolver or handshake call
callVars == <<op, arg, tls, net, hsOK, ret, queries, log, hello>>

\* the state of the client
clientVars == <<tr, rt, rts>>

NoTLSConfig == [ServerName |-> "", NextProtos |-> <<>>]

NoRet == [ipAddresses |-> <<>>, echConfigs |-> <<>>, conn |-> FALSE, err |-> NilErr]

\* no transport built yet
NoTransport ==
    [kind |-> "none", dial |-> <<>>, tlsConfig |-> NoTLSConfig, conn |-> NilConn,
     dials |-> 0]

\* no round trip made yet
NoRoundTrip ==
    [done |-> FALSE, err |-> "", Host |-> NoAddr, method |-> "none",
     dialed |-> FALSE, calls |-> <<>>, connect |-> <<>>, handshakes |-> <<>>,
     carrier |-> NilConn, TLS |-> <<>>, trace |-> <<>>]

\* the goroutines that call RoundTrip on one Transport at the same time
Procs == {1, 2}

\* what the base transport returned to a RoundTrip call
NoBase == [err |-> "", ret |-> NilConn, method |-> "none", dconn |-> NilConn]

\* A RoundTrip call that has not started: pc is "idle", then "sent" when the
\* base transport has returned, "responded" when RoundTrip has returned and
\* "done" when the caller has asked the Transport for the connection
NoCall == [pc |-> "idle", base |-> NoBase, TLS |-> <<>>, conn |-> NilConn]

(***************************************************************************)
(* The TLS random reader                                                   *)
(***************************************************************************)
\* the length of a TLS ClientHello random value
RandomLen == 32

\* how many Read calls are made on one reader
MaxReads == 3

\* a byte copied from the configured random value
DataByte(b) == [from |-> "data", v |-> b]

\* a byte produced by crypto/rand.Reader
SystemByte == [from |-> "system", v |-> 0]

\* the values of cfg.TLSRandom: not set, one byte short, and 32-byte values
\* with distinct and with repeated bytes
RandomValues ==
    {<<>>,
     [i \in 1..(RandomLen - 1) |-> i],
     [i \in 1..RandomLen |-> i],
     [i \in 1..RandomLen |-> i % 2]}

\* the sizes of the buffers passed to Read
BufSizes ==
    {0, 1, RandomLen \div 2, RandomLen - 1, RandomLen, RandomLen + 1,
     2 * RandomLen}

\* what crypto/rand.Reader does with a buffer of len bytes: it fills it, or
\* it fails before the first byte
randRead(len, sys) ==
    IF sys = "ok" \/ len = 0
    THEN [p |-> [i \in 1..len |-> SystemByte], n |-> len, err |-> ""]
    ELSE [p |-> <<>>, n |-> 0, err |-> "rand"]

\* Read that does not advance the position after copying
tlsRandomReaderReadNoAdvance(r, len, sys) ==
    IF r.pos < Len(r.data)
    THEN LET rest == Len(r.data) - r.pos
             toCopy == IF rest > len THEN len ELSE rest
             copied == [i \in 1..toCopy |-> DataByte(r.data[r.pos + i])]
             s == randRead(len - toCopy, sys)
         IN  IF toCopy < len
             THEN [r |-> r, p |-> copied \o s.p, n |-> toCopy + s.n, err |-> s.err]
             ELSE [r |-> r, p |-> copied, n |-> toCopy, err |-> ""]
    ELSE LET s == randRead(len, sys)
         IN  [r |-> r, p |-> s.p, n |-> s.n, err |-> s.err]

\* tlsRandomReader.Read on a buffer of len bytes: the bytes written to the
\* buffer, the count and the error returned, and the reader afterwards
tlsRandomReaderRead(r, len, sys) ==
    IF r.pos < Len(r.data)
    THEN LET rest == Len(r.data) - r.pos
             toCopy == IF rest > len THEN len ELSE rest
             copied == [i \in 1..toCopy |-> DataByte(r.data[r.pos + i])]
             moved == [r EXCEPT !.pos = r.pos + toCopy]
             s == randRead(len - toCopy, sys)
         IN  IF toCopy < len
             THEN [r |-> moved, p |-> copied \o s.p, n |-> toCopy + s.n,
                   err |-> s.err]
             ELSE [r |-> moved, p |-> copied, n |-> toCopy, err |-> ""]
    ELSE LET s == randRead(len, sys)
         IN  [r |-> r, p |-> s.p, n |-> s.n, err |-> s.err]

\* the Rand field createTLSConfig sets: a tlsRandomReader over cfg.TLSRandom
\* when that has 32 bytes, none otherwise
createTLSRand(TLSRandom) ==
    IF Len(TLSRandom) = RandomLen
    THEN [set |-> TRUE, r |-> [data |-> TLSRandom, pos |-> 0]]
    ELSE [set |-> FALSE, r |-> [data |-> <<>>, pos |-> 0]]

\* no TLS configuration created yet
NoRand ==
    [made |-> FALSE, set |-> FALSE, r |-> [data |-> <<>>, pos |-> 0],
     out |-> <<>>, sizes |-> <<>>, n |-> 0, err |-> ""]

\* no TLS-Split connection opened yet
NoSplitConn ==
    [open |-> FALSE, c |-> NewSplitTLSConn(0, 0), b |-> <<>>, out |-> <<>>,
     n |-> 0, err |-> FALSE, panic |-> FALSE, splits |-> 0]

Init ==
    /\ pc = "start"
    /\ cfg = ZeroConfig
    /\ op = "none"
    /\ arg = ""
    /\ tls = NoTLSConfig
    /\ net = NoNetwork
    /\ hsOK = FALSE
    /\ ret = NoRet
    /\ queries = <<>>
    /\ log = <<>>
    /\ hello = NoHello
    /\ tr = NoTransport
    /\ rt = NoRoundTrip
    /\ rts = [p \in Procs |-> NoCall]
    /\ sconn = NoSplitConn
    /\ rnd = NoRand

\* main: the command line is parsed once; an invalid one ends the run
Configure(options) ==
    /\ pc = "start"
    /\ \E opts \in options :
          LET r == ParseConfig(opts)
          IN  /\ pc' = IF r.err THEN "failed" ELSE "ready"
              /\ cfg' = r.cfg
    /\ UNCHANGED <<callVars, clientVars, sconn, rnd>>

ConfigureResolver == Configure(ResolverOptions)

ConfigureHandshake == Configure(HandshakeOptions)

\* a call of Resolver.LookupHost
CallLookupHost ==
    /\ pc = "ready"
    /\ \E hostname \in Hostnames, n \in HostNetworks :
          LET r == LookupHost(cfg, n, hostname)
          IN  /\ op' = "LookupHost"
              /\ arg' = hostname
              /\ net' = n
              /\ ret' = [NoRet EXCEPT !.ipAddresses = r.ipAddresses, !.err = r.err]
              /\ queries' = r.asked
    /\ pc' = "returned"
    /\ UNCHANGED <<cfg, tls, hsOK, log, hello, clientVars, sconn, rnd>>

\* a call of Resolver.LookupECHConfigs
CallLookupECHConfigs ==
    /\ pc = "ready"
    /\ \E hostname \in ECHHostnames, n \in ECHNetworks :
          LET r == LookupECHConfigs(cfg, n, hostname)
          IN  /\ op' = "LookupECHConfigs"
              /\ arg' = hostname
              /\ net' = n
              /\ ret' = [NoRet EXCEPT !.echConfigs = r.echConfigs, !.err = r.err]
              /\ queries' = r.asked
    /\ pc' = "returned"
    /\ UNCHANGED <<cfg, tls, hsOK, log, hello, clientVars, sconn, rnd>>

\* a call of cfcrypto.Handshake on an established connection
CallHandshake ==
    /\ pc = "ready"
    /\ \E tlsConfig \in TLSConfigs, n \in ECHNetworks, ok \in BOOLEAN :
          LET r == Handshake(tlsConfig, cfg, n, ok)
          IN  /\ op' = "Handshake"
              /\ arg' = tlsConfig.ServerName
              /\ tls' = tlsConfig
              /\ net' = n
              /\ hsOK' = ok
              /\ ret' = [NoRet EXCEPT !.conn = r.conn, !.err = r.err]
              /\ queries' = r.asked
              /\ log' = r.warnings
              /\ hello' = r.hello
    /\ pc' = "returned"
    /\ UNCHANGED <<cfg, clientVars, sconn, rnd>>

\* the caller takes the result; the next operation starts afresh
Return ==
    /\ pc = "returned"
    /\ pc' = "ready"
    /\ op' = "none"
    /\ arg' = ""
    /\ tls' = NoTLSConfig
    /\ net' = NoNetwork
    /\ hsOK' = FALSE
    /\ ret' = NoRet
    /\ queries' = <<>>
    /\ log' = <<>>
    /\ hello' = NoHello
    /\ UNCHANGED <<cfg, clientVars, sconn, rnd>>

\* the resolver
Next ==
    \/ ConfigureResolver
    \/ CallLookupHost
    \/ CallLookupECHConfigs
    \/ Return

Spec == Init /\ [][Next]_vars

\* the TLS handshake dispatcher
NextHandshake ==
    \/ ConfigureHandshake
    \/ CallHandshake
    \/ Return

SpecHandshake == Init /\ [][NextHandshake]_vars

ConfigureSplit == Configure(SplitOptions)

\* the dial function of splittls.CreateDialFunc returns a connection that
\* wraps the one the base dial function opened
SplitDial ==
    /\ pc = "ready"
    /\ cfg.TLSSplitChunkSize > 0
    /\ sconn' = [NoSplitConn EXCEPT
                    !.open = TRUE,
                    !.c = NewSplitTLSConn(cfg.TLSSplitChunkSize, cfg.TLSSplitDelay)]
    /\ UNCHANGED <<pc, cfg, callVars, clientVars, rnd>>

\* a call of splitTLSConn.Write; a panic ends the program
SplitWrite ==
    /\ pc = "ready"
    /\ sconn.open
    /\ sconn.c.writeCnt < MaxWrites
    /\ \E b \in Buffers, e \in WriteEnvs :
          LET r == Write(sconn.c, b, e)
          IN  /\ sconn' = [open |-> ~r.panic, c |-> r.c, b |-> b, out |-> r.out,
                           n |-> r.n, err |-> r.err, panic |-> r.panic,
                           splits |-> sconn.splits +
                               IF Len(BaseWrites(r.out)) > 1 THEN 1 ELSE 0]
              /\ pc' = IF r.panic THEN "panicked" ELSE pc
    /\ UNCHANGED <<cfg, callVars, clientVars, rnd>>

\* the TLS-Split connection
NextSplit ==
    \/ ConfigureSplit
    \/ SplitDial
    \/ SplitWrite

SpecSplit == Init /\ [][NextSplit]_vars

ConfigureClient == Configure(ClientOptions)

\* Run: the transport is created once; a failure ends the run
CallNewTransport ==
    /\ pc = "ready"
    /\ tr.kind = "none"
    /\ LET r == NewTransport(cfg)
       IN  /\ pc' = IF r.err THEN "failed" ELSE "ready"
           /\ tr' = r.t
    /\ UNCHANGED <<cfg, callVars, rt, rts, sconn, rnd>>

\* a call of transport.RoundTrip with the request NewRequest creates
CallRoundTrip ==
    /\ pc = "ready"
    /\ tr.kind # "none"
    /\ tr.dials < MaxRoundTrips
    /\ \E e \in Envs(cfg, tr), req \in {NewRequest(cfg)} :
       \E r \in {RoundTrip(tr, cfg, req, e)} :
              /\ tr' = [tr EXCEPT !.conn = r.dconn, !.dials = @ + 1]
              /\ rt' = [done |-> TRUE, err |-> r.err, Host |-> req.Host,
                        method |-> r.method, dialed |-> r.dialed,
                        calls |-> r.calls, connect |-> r.connect,
                        handshakes |-> r.handshakes, carrier |-> r.ret,
                        TLS |-> r.TLS, trace |-> r.trace]
              /\ hello' = r.hello
              /\ queries' = r.asked
              /\ log' = r.warnings
    /\ op' = "RoundTrip"
    /\ UNCHANGED <<pc, cfg, arg, tls, net, hsOK, ret, rts, sconn, rnd>>

\* the client
NextClient ==
    \/ ConfigureClient
    \/ CallNewTransport
    \/ CallRoundTrip

SpecClient == Init /\ [][NextClient]_vars

ConfigureConcurrent == Configure(ConcurrentOptions)

\* RoundTrip of goroutine p, up to the return of the base transport: the
\* base transport dials, which assigns d.conn, and exchanges the request
BaseRoundTrip(p) ==
    /\ pc = "ready"
    /\ tr.kind # "none"
    /\ rts[p].pc = "idle"
    /\ \E e \in Envs(cfg, tr), req \in {NewRequest(cfg)} :
       \E r \in {baseRoundTrip(tr, cfg, req, e)} :
              /\ tr' = [tr EXCEPT !.conn = r.dconn, !.dials = @ + 1]
              /\ rts' = [rts EXCEPT ![p] =
                            [@ EXCEPT !.pc = "sent",
                                      !.base = [err |-> r.err, ret |-> r.ret,
                                                method |-> r.method,
                                                dconn |-> r.dconn]]]
    /\ UNCHANGED <<pc, cfg, callVars, rt, sconn, rnd>>

\* RoundTrip of goroutine p after the base transport returned: resp.TLS is
\* set from what t.d.conn is now
Respond(p) ==
    /\ rts[p].pc = "sent"
    /\ rts' = [rts EXCEPT ![p] =
                  [@ EXCEPT !.pc = "responded",
                            !.TLS = Responded(tr.kind,
                                        [rts[p].base EXCEPT !.dconn = tr.conn]).TLS]]
    /\ UNCHANGED <<pc, cfg, callVars, tr, rt, sconn, rnd>>

\* the caller of goroutine p asks the Transport for the connection of its
\* response
ReportConn(p) ==
    /\ rts[p].pc = "responded"
    /\ rts' = [rts EXCEPT ![p] = [@ EXCEPT !.pc = "done", !.conn = TransportConn(tr)]]
    /\ UNCHANGED <<pc, cfg, callVars, tr, rt, sconn, rnd>>

\* round trips that run concurrently on one Transport
NextConcurrent ==
    \/ ConfigureConcurrent
    \/ CallNewTransport
    \/ \E p \in Procs : BaseRoundTrip(p)
    \/ \E p \in Procs : Respond(p)
    \/ \E p \in Procs : ReportConn(p)

SpecConcurrent == Init /\ [][NextConcurrent]_vars

\* createTLSConfig sets the Rand of the TLS configuration
CreateTLSRand ==
    /\ ~rnd.made
    /\ \E TLSRandom \in RandomValues :
          LET c == createTLSRand(TLSRandom)
          IN  rnd' = [NoRand EXCEPT !.made = TRUE, !.set = c.set, !.r = c.r]
    /\ UNCHANGED <<pc, cfg, callVars, clientVars, sconn>>

\* a call of Read on the reader the TLS configuration holds; the output
\* stream is what the calls returned, one after another
ReadRand ==
    /\ rnd.made
    /\ rnd.set
    /\ Len(rnd.sizes) < MaxReads
    /\ \E len \in BufSizes, sys \in {"ok", "fail"} :
          LET x == tlsRandomReaderRead(rnd.r, len, sys)
          IN  rnd' = [rnd EXCEPT !.r = x.r,
                                 !.out = rnd.out \o SubSeq(x.p, 1, x.n),
                                 !.sizes = Append(rnd.sizes, len),
                                 !.n = x.n,
                                 !.err = x.err]
    /\ UNCHANGED <<pc, cfg, callVars, clientVars, sconn>>

\* the random source of the TLS configuration
NextRand ==
    \/ CreateTLSRand
    \/ ReadRand

SpecRand == Init /\ [][NextRand]_vars

(***************************************************************************)
(* Vocabulary of the properties                                            *)
(***************************************************************************)
Returned(o) == pc = "returned" /\ op = o

\* the hostnames that are literal IP addresses
LiteralHosts == {"127.0.0.1", "::1", "::ffff:127.0.0.1"}

\* a Resolution Override applies to the looked-up hostname
HasOverride == arg \in DOMAIN cfg.Resolve \/ "*" \in DOMAIN cfg.Resolve

\* LookupHost returned after going to DNS
HostViaDNS == Returned("LookupHost") /\ arg \notin LiteralHosts /\ ~HasOverride

\* LookupECHConfigs returned after going to DNS
ECHViaDNS == Returned("LookupECHConfigs") /\ cfg.ECHConfigs = <<>>

\* upstream u answers a query of type q successfully with records
Answers(u, q) == net[q][u] \in {"cname", "addr", "ok"}

\* the first upstream, in configured order, that answers q; 0 when none does
FirstAnswering(q) ==
    IF \E u \in Upstreams : Answers(u, q)
    THEN CHOOSE u \in Upstreams :
             Answers(u, q) /\ \A v \in Upstreams : v < u => ~Answers(v, q)
    ELSE 0

\* the exchanges the fallback policy prescribes for q
ExpectedExchanges(q) ==
    LET last == IF FirstAnswering(q) = 0 THEN NumUpstreams ELSE FirstAnswering(q)
    IN  [i \in 1..last |-> [q |-> q, u |-> i]]

\* the exchanges made for q, in the order they were made
ExchangesOf(q) == SelectSeq(queries, LAMBDA e : e.q = q)

\* the addresses the query of type q contributes
Supplied(q) ==
    IF FirstAnswering(q) # 0 /\ net[q][FirstAnswering(q)] = "addr"
    THEN <<AddrOf(FirstAnswering(q), q)>>
    ELSE <<>>

\* the error upstream u reports for q, when it does not answer
UpstreamErr(u, q) ==
    CASE net[q][u] = "neterr" -> ExchangeErr(u, q)
      [] net[q][u] = "servfail" -> RcodeErr(u, q)
      [] OTHER -> Annotate(ErrEmptyResponse, u, q)

\* the ECH configurations of the well-formed ech parameters of the domain's
\* HTTPS records
ValidECHConfigs ==
    UNION {{ECHConfigsAt(i, j)[k] : k \in 1..2} :
              <<i, j>> \in {p \in (1..Len(net.rrset)) \X (1..2) :
                               /\ net.rrset[p[1]].type = "HTTPS"
                               /\ p[2] <= Len(net.rrset[p[1]].vals)
                               /\ net.rrset[p[1]].vals[p[2]] = "echok"}}

\* some HTTPS record of the domain has an ech parameter
HasECHParam ==
    \E i \in 1..Len(net.rrset) :
        \E j \in 1..Len(net.rrset[i].vals) :
            net.rrset[i].vals[j] \in ECHParamKinds

\* seq lists the members of set once each, in increasing order
ListsInOrder(seq, set) ==
    /\ {seq[i] : i \in 1..Len(seq)} = set
    /\ \A i \in 1..Len(seq) : \A j \in 1..Len(seq) : i < j => seq[i] < seq[j]

(***************************************************************************)
(* Properties                                                              *)
(***************************************************************************)

\* C1: LookupHost returns either a nil error with at least one address or a
\* non-nil error; never an empty address list with a nil error.
C1_NeverEmptySuccess ==
    Returned("LookupHost") =>
        \/ ret.err = NilErr /\ Len(ret.ipAddresses) >= 1
        \/ ret.err # NilErr /\ ret.ipAddresses = <<>>

\* C1 witness: a non-empty override map without an entry for the hostname,
\* and upstreams that answer both queries with records that are no addresses
C1_Witness ==
    /\ Returned("LookupHost")
    /\ arg = "example.net"
    /\ DOMAIN cfg.Resolve = {"example.org"}
    /\ \A u \in Upstreams : net.A[u] = "cname" /\ net.AAAA[u] = "cname"
    /\ ret.err # NilErr

\* C2: for a non-IP hostname with a Resolution Override, LookupHost returns
\* exactly the overridden list (the exact entry before "*"), with no error
\* and without any DNS exchange, whatever the upstreams would do.
C2_OverrideVerbatim ==
    (Returned("LookupHost") /\ arg \notin LiteralHosts /\ HasOverride) =>
        /\ ret.err = NilErr
        /\ queries = <<>>
        /\ ret.ipAddresses = IF arg \in DOMAIN cfg.Resolve
                             THEN cfg.Resolve[arg]
                             ELSE cfg.Resolve["*"]

\* C2 witness: example.org, overridden both exactly and by "*", resolves to
\* its exact entry while every upstream is unreachable
C2_Witness ==
    /\ Returned("LookupHost")
    /\ arg = "example.org"
    /\ DOMAIN cfg.Resolve = {"example.org", "*"}
    /\ net.A = Unreachable
    /\ net.AAAA = Unreachable
    /\ ret.ipAddresses = <<<<127, 0, 0, 1>>>>

\* C3: for a literal IP hostname LookupHost returns exactly that IP (an IPv4
\* address in its 4-byte form), with no error and without any DNS exchange,
\* whatever overrides and upstreams are configured.
C3_LiteralIP ==
    (Returned("LookupHost") /\ arg \in LiteralHosts) =>
        /\ ret.err = NilErr
        /\ queries = <<>>
        /\ arg = "127.0.0.1" => ret.ipAddresses = <<<<127, 0, 0, 1>>>>
        /\ arg = "::ffff:127.0.0.1" => ret.ipAddresses = <<<<127, 0, 0, 1>>>>
        /\ arg = "::1" => ret.ipAddresses = <<V6Loopback>>

\* C3 witness: 127.0.0.1 looked up while a "*" override is configured and
\* the upstreams would answer
C3_Witness ==
    /\ Returned("LookupHost")
    /\ arg = "127.0.0.1"
    /\ "*" \in DOMAIN cfg.Resolve
    /\ net.A[1] = "addr"
    /\ ret.ipAddresses = <<<<127, 0, 0, 1>>>>

\* C4: for each DNS query the upstreams are tried one by one in configured
\* order; one that fails, answers with a non-success code or answers without
\* records is skipped; the first that answers with records supplies the
\* result and no upstream after it is asked.
C4_UpstreamFallback ==
    /\ HostViaDNS =>
          /\ \A q \in {"A", "AAAA"} : ExchangesOf(q) = ExpectedExchanges(q)
          /\ \A i \in 1..Len(ret.ipAddresses) :
                \E q \in {"A", "AAAA"} :
                    /\ FirstAnswering(q) # 0
                    /\ ret.ipAddresses[i] = AddrOf(FirstAnswering(q), q)
          /\ \A q \in {"A", "AAAA"} :
                \A i \in 1..Len(Supplied(q)) :
                    \E k \in 1..Len(ret.ipAddresses) :
                        ret.ipAddresses[k] = Supplied(q)[i]
    /\ ECHViaDNS => queries = ExpectedExchanges("HTTPS")

\* C4 witness: the first upstream answers the A query with a server failure,
\* the second one with an address, which is the result
C4_Witness ==
    /\ HostViaDNS
    /\ net.A[1] = "servfail"
    /\ net.A[2] = "addr"
    /\ net.AAAA = Unreachable
    /\ ret.err = NilErr
    /\ ret.ipAddresses = <<<<10, 0, 0, 2>>>>

C6_EveryUpstreamError ==
    (HostViaDNS /\ ret.ipAddresses = <<>>) =>
        /\ ErrorsIs(ret.err, ErrEmptyResponse)
        /\ \A q \in {"A", "AAAA"} :
              \A u \in Upstreams :
                  ~Answers(u, q) => ErrorContains(ret.err, UpstreamErr(u, q))

\* C6 as amended: when no address is found, the error matches
\* ErrEmptyResponse and contains, for each query type that failed at every
\* upstream, the error of every upstream for that query type.
C6_FailedQueryErrors ==
    (HostViaDNS /\ ret.ipAddresses = <<>>) =>
        /\ ret.err # NilErr
        /\ ErrorsIs(ret.err, ErrEmptyResponse)
        /\ \A q \in {"A", "AAAA"} :
              FirstAnswering(q) = 0 =>
                  \A u \in Upstreams : ErrorContains(ret.err, UpstreamErr(u, q))

\* C6 witness: both queries fail at every upstream, in different ways
C6_Witness ==
    /\ HostViaDNS
    /\ net.A[1] = "servfail"
    /\ net.A[2] = "empty"
    /\ \A u \in Upstreams : net.AAAA[u] = "neterr"
    /\ ret.ipAddresses = <<>>
    /\ ErrorContains(ret.err, RcodeErr(1, "A"))

\* C7: with an ECH configuration supplied in the configuration,
\* LookupECHConfigs returns exactly it, for every hostname, without any DNS
\* exchange.
C7_PresetECH ==
    (Returned("LookupECHConfigs") /\ cfg.ECHConfigs # <<>>) =>
        /\ ret.err = NilErr
        /\ ret.echConfigs = PresetECHConfigs
        /\ queries = <<>>

\* C7 witness: the supplied configuration is returned although the domain
\* publishes other configurations
C7_Witness ==
    /\ Returned("LookupECHConfigs")
    /\ cfg.ECHConfigs = PresetECHConfigs
    /\ net.HTTPS[1] = "ok"
    /\ ValidECHConfigs # {}
    /\ ret.echConfigs = PresetECHConfigs

\* the domain has no ECH parameter: every upstream answers the HTTPS query
\* with no records at all, or with records none of which has one
DomainWithoutECH ==
    \A u \in Upstreams :
        \/ net.HTTPS[u] = "empty"
        \/ net.HTTPS[u] = "ok" /\ ~HasECHParam

C9_MalformedSkipped ==
    (ECHViaDNS /\ FirstAnswering("HTTPS") # 0) =>
        /\ ValidECHConfigs # {} =>
              /\ ret.err = NilErr
              /\ ListsInOrder(ret.echConfigs, ValidECHConfigs)
        /\ ValidECHConfigs = {} => ret.err # NilErr /\ ret.echConfigs = <<>>

\* C9 witness: a malformed parameter precedes a well-formed one; the lookup
\* succeeds with the configurations of the latter
C9_Witness ==
    /\ ECHViaDNS
    /\ FirstAnswering("HTTPS") # 0
    /\ Len(net.rrset) = 2
    /\ net.rrset[1] = [type |-> "HTTPS", vals |-> <<"alpn", "echbad">>]
    /\ net.rrset[2] = [type |-> "HTTPS", vals |-> <<"alpn", "echok">>]
    /\ ret.err = NilErr
    /\ ret.echConfigs = ECHConfigsAt(2, 2)

\* the ECH lookup of the handshake finds no configuration
ECHLookupFails == FirstAnswering("HTTPS") = 0 \/ ValidECHConfigs = {}

\* C10: when ECH is requested without an explicit configuration and the ECH
\* lookup fails, the handshake is still attempted, Handshake returns what
\* the handshake itself yields, and the lookup error is only logged.
C10_LookupFailureNotFatal ==
    (Returned("Handshake") /\ cfg.ECH /\ cfg.ECHConfigs = <<>> /\ ECHLookupFails) =>
        /\ hello.sent
        /\ hello.ClientECHConfigs = <<>>
        /\ ret.conn = hsOK
        /\ ret.err = IF hsOK THEN NilErr ELSE HandshakeErr
        /\ Len(log) = 1
        /\ log[1].err # NilErr
        /\ ret.err # log[1].err

\* C10 witness: the domain has HTTPS records without an ECH parameter; the
\* handshake completes
C10_Witness ==
    /\ Returned("Handshake")
    /\ cfg.ECH
    /\ cfg.ECHConfigs = <<>>
    /\ net.HTTPS[1] = "ok"
    /\ ~HasECHParam
    /\ hsOK
    /\ ret.conn
    /\ ret.err = NilErr
    /\ Len(log) = 1

(***************************************************************************)
(* TLS-Split connection                                                    *)
(***************************************************************************)
\* the last call on the TLS-Split connection was a Write that returned
Wrote == sconn.open /\ sconn.c.writeCnt > 0

\* the bytes of b are those of a ClientHello record
HelloBytes(b) == Len(b) >= 6 /\ b[1] = 22 /\ b[2] = 3 /\ b[6] = 1

\* the buffer was passed to the base connection in a single call
PassedThrough(s) == BaseWrites(s.out) = <<BaseWrite(s.b)>>

\* C14: a write that matches the ClientHello heuristic and is longer than the
\* chunk size c makes exactly two writes on the base connection, the first c
\* bytes and then the remaining n - c bytes, with the configured pause in
\* between and nothing else, and reports n bytes written (the base connection
\* taking both writes).  The first such write of a connection is one of them.
C14_SplitInTwo ==
    (/\ Wrote
     /\ isClientHello(sconn.c, sconn.b)
     /\ Len(sconn.b) > sconn.c.firstChunkSize
     /\ ~sconn.err) =>
        LET c == sconn.c.firstChunkSize
            n == Len(sconn.b)
        IN  /\ BaseWrites(sconn.out) =
                  <<BaseWrite(Slice(sconn.b, 0, c)), BaseWrite(Slice(sconn.b, c, n))>>
            /\ Len(sconn.out[1].b) = c
            /\ Len(sconn.out[Len(sconn.out)].b) = n - c
            /\ sconn.out[1].b \o sconn.out[Len(sconn.out)].b = sconn.b
            /\ Len(sconn.out) = IF sconn.c.delay > 0 THEN 3 ELSE 2
            /\ sconn.c.delay > 0 => sconn.out[2] = Sleep(sconn.c.delay)
            /\ sconn.n = n

\* C14 witness: the third write of a connection with chunk size 3 and a delay
\* is the first to look like a ClientHello; its 8 bytes go out as 3 and 5
C14_Witness ==
    /\ Wrote
    /\ sconn.c.writeCnt = 3
    /\ sconn.splits = 1
    /\ sconn.c.firstChunkSize = 3
    /\ sconn.c.delay = 50
    /\ sconn.b = Record(<<22, 3, 1>>, 8)
    /\ ~sconn.err
    /\ sconn.n = 8
    /\ Len(BaseWrites(sconn.out)) = 2

\* C15: once a connection has split one write, every later write on it goes
\* to the base connection as a single unsplit write.
C15_NoSplitAfterSplit ==
    [][(/\ sconn.open
        /\ sconn.splits >= 1
        /\ sconn'.open
        /\ sconn'.c.writeCnt = sconn.c.writeCnt + 1) => PassedThrough(sconn')]_vars

\* C16: the first five Write calls of a connection are inspected (one that
\* carries a ClientHello longer than the chunk size is split), the sixth and
\* every later call is passed through in a single write whatever it carries.
C16_FiveWritesInspected ==
    /\ (Wrote /\ sconn.c.writeCnt > 5) => PassedThrough(sconn)
    /\ (/\ Wrote
        /\ sconn.c.writeCnt <= 5
        /\ HelloBytes(sconn.b)
        /\ Len(sconn.b) > sconn.c.firstChunkSize
        /\ ~sconn.err) => Len(BaseWrites(sconn.out)) = 2

\* C16 witness: the sixth write carries a ClientHello longer than the chunk
\* size, no earlier write was split, and it goes out whole
C16_Witness ==
    /\ Wrote
    /\ sconn.c.writeCnt = 6
    /\ sconn.splits = 0
    /\ HelloBytes(sconn.b)
    /\ Len(sconn.b) > sconn.c.firstChunkSize
    /\ PassedThrough(sconn)
    /\ sconn.n = Len(sconn.b)

(***************************************************************************)
(* Dialer chain, handshake dispatch and transports                         *)
(***************************************************************************)
\* the transport has been built
Built == tr.kind # "none"

\* the stages in the fixed order, the outermost first
ChainOrder == <<"TLSSplit", "ConnectTo", "Proxy", "Direct">>

\* the configuration enables the stage
StageEnabled(stage) ==
    CASE stage = "TLSSplit" -> cfg.TLSSplitChunkSize > 0
      [] stage = "ConnectTo" -> DOMAIN cfg.ConnectTo # {}
      [] stage = "Proxy" -> cfg.ProxyURL # NoURL
      [] stage = "Direct" -> TRUE

StageNames(stages) == [i \in 1..Len(stages) |-> stages[i].stage]

\* the address the transport dials: host and port of the request URL
TargetAddr ==
    <<cfg.RequestURL.Hostname,
      IF cfg.RequestURL.Port # "" THEN cfg.RequestURL.Port
      ELSE IF cfg.RequestURL.Scheme \in {"http", "ws"} THEN "80" ELSE "443">>

\* the address of the proxy server
ProxyAddr ==
    <<cfg.ProxyURL.Hostname,
      IF cfg.ProxyURL.Port # "" THEN cfg.ProxyURL.Port
      ELSE CASE cfg.ProxyURL.Scheme = "http" -> "80"
             [] cfg.ProxyURL.Scheme = "https" -> "443"
             [] OTHER -> "1080">>

\* the calls of a stage during the last round trip
CallsOf(stage) == SelectSeq(rt.calls, LAMBDA x : x.stage = stage)

\* the handshakes made with the server during the last round trip
ServerHandshakes == SelectSeq(rt.handshakes, LAMBDA x : x.layer = "server")

\* C11: the dial function nests the enabled stages in the fixed order
\* TLS-Split, Connect-To, Proxy, Direct from the outside in, whatever stages
\* are enabled, and every dial enters them in that order.
C11_ChainOrder ==
    Built =>
        /\ StageNames(tr.dial) = SelectSeq(ChainOrder, StageEnabled)
        /\ StageNames(rt.calls) = SubSeq(StageNames(tr.dial), 1, Len(rt.calls))
        /\ (rt.done /\ rt.method # "none") => Len(rt.calls) >= 1

\* C11 witness: with only TLS-Split and a proxy enabled, a dial goes through
\* TLS-Split, the proxy and the direct dialer, in that order
C11_Witness ==
    /\ Built
    /\ rt.done
    /\ rt.err = ""
    /\ DOMAIN cfg.ConnectTo = {}
    /\ StageNames(rt.calls) = <<"TLSSplit", "Proxy", "Direct">>

\* C12: with a proxy and a connect-to mapping of the target address, the
\* proxy is asked to tunnel to the mapped address, and the proxy itself is
\* reached at its own address even when the map names that address.
C12_ProxyTunnelsToMapped ==
    (rt.done /\ cfg.ProxyURL # NoURL /\ TargetAddr \in DOMAIN cfg.ConnectTo) =>
        /\ \A i \in 1..Len(CallsOf("Proxy")) :
              CallsOf("Proxy")[i].addr = cfg.ConnectTo[TargetAddr]
        /\ \A i \in 1..Len(rt.connect) : rt.connect[i] = cfg.ConnectTo[TargetAddr]
        /\ \A i \in 1..Len(CallsOf("Direct")) :
              CallsOf("Direct")[i].addr = ProxyAddr
        /\ rt.carrier # NilConn =>
              /\ rt.carrier.tunnel = cfg.ConnectTo[TargetAddr]
              /\ rt.carrier.remote[2] = ProxyAddr[2]

\* C12 witness: the map names both the target and the HTTP proxy; the proxy
\* is dialed at its own address and tunnels to the mapped address
C12_Witness ==
    /\ rt.done
    /\ rt.err = ""
    /\ cfg.ProxyURL.Scheme = "http"
    /\ TargetAddr \in DOMAIN cfg.ConnectTo
    /\ ProxyAddr \in DOMAIN cfg.ConnectTo
    /\ rt.connect = <<<<"mapped.example", "8443">>>>
    /\ CallsOf("Direct")[1].addr = <<"proxy.example", "80">>
    /\ rt.carrier.tunnel = <<"mapped.example", "8443">>

\* C13: Connect-To changes only the address its base dial function is
\* called with: the network is passed on, the Host header is that of the
\* request URL and the TLS server name is the host name of the request URL,
\* or the --tls-servername value.
C13_ConnectToOnlyAddress ==
    (rt.done /\ StageEnabled("ConnectTo")) =>
        /\ rt.Host = <<cfg.RequestURL.Hostname, cfg.RequestURL.Port>>
        /\ hello.sent =>
              hello.ServerName = IF cfg.TLSServerName # "" THEN cfg.TLSServerName
                                 ELSE cfg.RequestURL.Hostname
        /\ \A i \in 1..Len(rt.calls) :
              (rt.calls[i].stage = "ConnectTo" /\ i < Len(rt.calls)) =>
                  /\ rt.calls[i + 1].network = rt.calls[i].network
                  /\ rt.calls[i + 1].addr =
                        IF rt.calls[i].addr \in DOMAIN cfg.ConnectTo
                        THEN cfg.ConnectTo[rt.calls[i].addr]
                        ELSE rt.calls[i].addr

\* C13 witness: https://example.org is redirected to mapped.example:8443;
\* the handshake names example.org and so does the Host header
C13_Witness ==
    /\ rt.done
    /\ rt.err = ""
    /\ cfg.TLSServerName = ""
    /\ rt.calls = <<[stage |-> "ConnectTo", network |-> "tcp",
                     addr |-> <<"example.org", "443">>],
                    [stage |-> "Direct", network |-> "tcp",
                     addr |-> <<"mapped.example", "8443">>]>>
    /\ hello.sent
    /\ hello.ServerName = "example.org"
    /\ rt.Host = <<"example.org", "">>

\* the last round trip dialed with DialTLSContext and got a connection
TLSDialed == rt.done /\ rt.method = "DialTLSContext" /\ rt.dialed

\* C17 as stated: every TLS dial makes exactly one handshake on the dialed
\* connection, the enhanced one if and only if ECH (flag or explicit
\* configuration) or post-quantum is requested.
C17_EnhancedIffECHOrPQ ==
    TLSDialed =>
        /\ Len(ServerHandshakes) = 1
        /\ ServerHandshakes[1].path = "ctls" <=> (cfg.ECH \/ cfg.PostQuantum)

\* C17: every TLS dial makes exactly one handshake on the dialed connection,
\* the enhanced one if and only if ECH (flag or explicit configuration), ECH
\* grease or post-quantum is requested, the plain one otherwise.
C17_EnhancedIffECHGreaseOrPQ ==
    TLSDialed =>
        /\ Len(ServerHandshakes) = 1
        /\ ServerHandshakes[1].path \in {"tls", "ctls"}
        /\ ServerHandshakes[1].path = "ctls" <=>
              (cfg.ECH \/ cfg.ECHGrease \/ cfg.PostQuantum)

\* C17 witness: only ECH grease is requested and the one handshake is the
\* enhanced one
C17_Witness ==
    /\ TLSDialed
    /\ cfg.ECHGrease
    /\ ~cfg.ECH
    /\ ~cfg.PostQuantum
    /\ ServerHandshakes = <<[layer |-> "server", path |-> "ctls"]>>
    /\ hello.ECHEnabled

\* no protocol is forced and the request is no WebSocket upgrade
DefaultALPN ==
    /\ ~cfg.ForceHTTP11
    /\ ~cfg.ForceHTTP2
    /\ ~cfg.ForceHTTP3
    /\ cfg.RequestURL.Scheme \notin {"ws", "wss"}

C19_TransportPrecedence ==
    Built =>
        /\ tr.kind \in {"h3", "h2", "h12"}
        /\ cfg.ForceHTTP3 => tr.kind = "h3"
        /\ (~cfg.ForceHTTP3 /\ cfg.ForceHTTP2) => tr.kind = "h2"
        /\ (~cfg.ForceHTTP3 /\ ~cfg.ForceHTTP2) => tr.kind = "h12"
        /\ rt.done =>
              rt.method \in CASE tr.kind = "h3" -> {"DialQUIC", "none"}
                              [] tr.kind = "h2" -> {"DialTLSContext"}
                              [] OTHER -> {"DialContext", "DialTLSContext"}

\* C19 witness: HTTP/1.1, HTTP/2 and HTTP/3 are all forced and the request
\* goes out over QUIC
C19_Witness ==
    /\ Built
    /\ cfg.ForceHTTP11
    /\ cfg.ForceHTTP2
    /\ cfg.ForceHTTP3
    /\ tr.kind = "h3"
    /\ rt.done
    /\ rt.err = ""
    /\ rt.method = "DialQUIC"

\* C20: after every successful round trip, on every transport, Conn()
\* returns the connection that carried the request.
C20_ConnIsCarrier ==
    (rt.done /\ rt.err = "") => TransportConn(tr) = rt.carrier

(***************************************************************************)
(* Response TLS state, failures of the dial, HTTP/3 and ALPN               *)
(***************************************************************************)
\* the last element of a non-empty sequence
Last(seq) == seq[Len(seq)]

\* the events of one kind during the last round trip
EventsOf(kind) == SelectSeq(rt.trace, LAMBDA x : x.kind = kind)

\* the last round trip went through an HTTP or HTTPS proxy
ViaHTTPProxy == rt.done /\ cfg.ProxyURL.Scheme \in {"http", "https"}

\* the fields of the TLS state the accessor exposes
StateFields ==
    {"NegotiatedProtocol", "Version", "CipherSuite", "PeerCertificates", "DidResume"}

\* the request of the last round trip was carried by a TLS session with the
\* server
OverTLS == rt.done /\ rt.err = "" /\ rt.carrier.tls \in {"tls", "ctls", "quic"}

\* C21: after every successful round trip over a TLS-secured connection the
\* response's TLS state is set and its negotiated protocol, version, cipher
\* suite, peer certificates and resumption flag are those of the connection
\* that carried the request, on the plain and on the enhanced path alike.
C21_ResponseTLSOfCarrier ==
    OverTLS =>
        /\ rt.TLS # <<>>
        /\ \A f \in StateFields : rt.TLS[1][f] = rt.carrier.state[f]

C21_Witness ==
    /\ OverTLS
    /\ rt.carrier.tls = "ctls"
    /\ rt.carrier.state.NegotiatedProtocol = "h2"
    /\ rt.TLS # <<>>

\* the status line of a successful CONNECT
StatusOK == Status(200)

\* the proxy connection was opened and closed again, and no connection is
\* returned
ProxyConnClosed ==
    /\ ~rt.dialed
    /\ rt.carrier = NilConn
    /\ Contains(rt.trace, Event("socket", cfg.ProxyURL.Hostname))
    /\ Last(rt.trace) = Event("close", cfg.ProxyURL.Hostname)

\* C22: the HTTP/HTTPS proxy dialer returns a connection only after the
\* proxy answered CONNECT with status 200; after any other status and after
\* a failure to write the request or to read the response the proxy
\* connection is closed and an error is returned, which carries the status
\* text of a non-200 answer.
C22_TunnelOnlyAfter200 ==
    ViaHTTPProxy =>
        /\ rt.dialed =>
              /\ EventsOf("response") = <<Response(cfg.ProxyURL.Hostname, StatusOK)>>
              /\ EventsOf("close") = <<>>
        /\ \A i \in DOMAIN rt.trace :
              (rt.trace[i].kind = "response" /\ rt.trace[i].status # StatusOK) =>
                  /\ ProxyConnClosed
                  /\ rt.err = "proxy connection failed: " \o rt.trace[i].status
        /\ rt.err \in {"failed to write CONNECT request to proxy",
                       "failed to read response from proxy"} => ProxyConnClosed

C22_Witness ==
    /\ ViaHTTPProxy
    /\ ProxyConnClosed
    /\ rt.err = "proxy connection failed: 407 Proxy Authentication Required"

\* the errors of the Direct stage
DirectErrors == {"resolve", "connect"}

\* the errors the proxy stage makes itself
ProxyErrors ==
    {"socks5", "HTTP proxy does not support udp",
     "failed to set TLS handshake deadline",
     "TLS handshake with HTTPS proxy failed",
     "failed to reset TLS connection deadline",
     "failed to write CONNECT request to proxy",
     "failed to read response from proxy"}
    \cup {"proxy connection failed: " \o Status(code) : code \in {407, 502}}

\* the dial function of the last round trip returned an error
DialFailed == rt.done /\ rt.method # "none" /\ ~rt.dialed

\* the Direct stage of the last dial failed: it was entered and no socket
\* was opened
DirectFailed ==
    /\ DialFailed
    /\ CallsOf("Direct") # <<>>
    /\ EventsOf("socket") = <<>>

\* C23: a failure of a stage of the dialer chain fails the whole dial with
\* that stage's error (the HTTP proxy stage wraps the error of the dial of
\* the proxy address), no stage is entered a second time, and with a proxy
\* configured no socket is ever opened to anything but the proxy.
C23_StageFailureFailsDial ==
    /\ DialFailed =>
          /\ rt.carrier = NilConn
          /\ \A stage \in {"TLSSplit", "ConnectTo", "Proxy", "Direct"} :
                Len(CallsOf(stage)) <= 1
          /\ IF DirectFailed
             THEN rt.err \in
                    IF CallsOf("Proxy") # <<>>
                    THEN {"failed to connect to proxy: " \o x : x \in DirectErrors}
                    ELSE DirectErrors
             ELSE rt.err \in ProxyErrors
    /\ (rt.done /\ cfg.ProxyURL # NoURL) =>
          \A i \in DOMAIN rt.trace :
              rt.trace[i].kind = "socket" => rt.trace[i].host = cfg.ProxyURL.Hostname

C23_Witness ==
    /\ DialFailed
    /\ cfg.ProxyURL.Scheme = "socks5"
    /\ rt.err = "socks5"
    /\ rt.trace = <<>>

\* C24: when a round trip fails after a connection was opened, the
\* connection is closed before the error is returned: every socket opened
\* during a failed round trip is closed afterwards.
C24_FailedDialClosesConnection ==
    (rt.done /\ rt.err # "") =>
        \A i \in DOMAIN rt.trace :
            rt.trace[i].kind = "socket" =>
                \E j \in DOMAIN rt.trace :
                    j > i /\ rt.trace[j] = Event("close", rt.trace[i].host)

\* C25: whatever the dialer chain and the proxy scheme, every socket opened
\* towards a hostname is preceded by a Resolver lookup of that hostname.
C25_LookupBeforeSocket ==
    rt.done =>
        \A i \in DOMAIN rt.trace :
            rt.trace[i].kind = "socket" =>
                \E j \in DOMAIN rt.trace :
                    j < i /\ rt.trace[j] = Event("lookup", rt.trace[i].host)

\* the last round trip dialed a QUIC connection
QUICDial == rt.done /\ rt.method = "DialQUIC"

\* C26: when HTTP/3 is selected no ECH configuration is looked up and the
\* QUIC handshake is started without ECH parameters, even when ECH is
\* requested.
C26_NoECHOverQUIC ==
    QUICDial =>
        /\ ExchangesOf("HTTPS") = <<>>
        /\ ~hello.ECHEnabled
        /\ hello.ClientECHConfigs = <<>>

C26_Witness ==
    /\ QUICDial
    /\ cfg.ECH
    /\ hello.sent
    /\ rt.err = ""

C28_GreaseWithoutLookup ==
    (Returned("Handshake") /\ cfg.ECHGrease /\ ~cfg.ECH) =>
        /\ hello.sent
        /\ hello.ECHEnabled
        /\ hello.ClientECHConfigs = <<>>
        /\ queries = <<>>

C28_Witness ==
    /\ Returned("Handshake")
    /\ cfg.ECHGrease
    /\ ~cfg.ECH
    /\ hello.ECHEnabled
    /\ net.HTTPS # Unreachable
    /\ ret.conn

\* C29: the TLS state of a response received through an HTTP or HTTPS proxy
\* is never that of the TLS session with the proxy, and the response to a
\* plaintext request carries no TLS state.
C29_NoProxyTLSState ==
    (ViaHTTPProxy /\ rt.err = "") =>
        /\ \A i \in DOMAIN rt.TLS : rt.TLS[i].PeerCertificates # <<"proxy">>
        /\ NewRequest(cfg).URL.Scheme = "http" => rt.TLS = <<>>

\* the protocols the transport of a kind speaks
Spoken(kind) ==
    CASE kind = "h3" -> {"h3"}
      [] kind = "h2" -> {"h2"}
      [] kind = "h12" -> {"http/1.1", "h2"}
      [] OTHER -> {}

\* C30: whatever force flags are set and whether or not the target is a
\* WebSocket, the ALPN list of the TLS configuration contains a protocol the
\* selected transport speaks.
C30_ALPNOfTransport ==
    Built => \E p \in Spoken(tr.kind) : Contains(tr.tlsConfig.NextProtos, p)

(***************************************************************************)
(* TLS-Split connection: short and other buffers                           *)
(***************************************************************************)
\* the bytes the last Write passed to the base connection, in order
RECURSIVE Delivered(_)
Delivered(writes) ==
    IF writes = <<>> THEN <<>> ELSE Head(writes).b \o Delivered(Tail(writes))

\* C31: a write whose buffer matches the ClientHello heuristic and is no
\* longer than the chunk size c completes without a runtime fault and passes
\* exactly the n bytes of the buffer to the base connection (the base
\* connection taking what it is given).
C31_ShortHelloDelivered ==
    (/\ sconn.c.writeCnt > 0
     /\ isClientHello(sconn.c, sconn.b)
     /\ Len(sconn.b) <= sconn.c.firstChunkSize) =>
        /\ ~sconn.panic
        /\ ~sconn.err =>
              /\ Delivered(BaseWrites(sconn.out)) = sconn.b
              /\ sconn.n = Len(sconn.b)

\* C38: a write whose buffer does not match the ClientHello heuristic (fewer
\* than six bytes, a first byte other than the handshake record type, a
\* second byte other than the TLS major version, or a sixth byte other than
\* the ClientHello message type) makes exactly one write of the identical
\* buffer on the base connection.
C38_OtherBuffersPassedThrough ==
    (sconn.c.writeCnt > 0 /\ ~HelloBytes(sconn.b)) =>
        /\ ~sconn.panic
        /\ PassedThrough(sconn)

\* C38 witness: the first write of a connection with chunk size 3 carries a
\* ServerHello record of 8 bytes and goes out whole
C38_Witness ==
    /\ Wrote
    /\ sconn.c.writeCnt = 1
    /\ sconn.c.firstChunkSize = 3
    /\ sconn.b = Record(<<22, 3, 2>>, 8)
    /\ PassedThrough(sconn)
    /\ sconn.n = 8

(***************************************************************************)
(* Deadline of the handshake with an HTTPS proxy                           *)
(***************************************************************************)
\* the deadline the configuration asks for, in seconds: the connect timeout
\* when one is configured, 30 seconds otherwise
HandshakeDeadline == IF cfg.ConnectTimeout > 0 THEN cfg.ConnectTimeout ELSE 30

\* C32: the TLS handshake with an HTTPS proxy runs under a deadline set on
\* the proxy connection right before it starts (the connect timeout when
\* configured, 30 seconds otherwise); after a successful handshake the
\* deadline is cleared before the CONNECT request is written, and the
\* connection returned carries no deadline.
C32_ProxyHandshakeDeadline ==
    (rt.done /\ cfg.ProxyURL.Scheme = "https") =>
        /\ \A i \in DOMAIN rt.trace :
              /\ rt.trace[i].kind = "handshake" =>
                    /\ i > 1
                    /\ rt.trace[i - 1] =
                          Deadline(cfg.ProxyURL.Hostname, HandshakeDeadline)
              /\ rt.trace[i].kind = "write" =>
                    /\ i > 2
                    /\ rt.trace[i - 2] = Event("handshake", cfg.ProxyURL.Hostname)
                    /\ rt.trace[i - 1] = Deadline(cfg.ProxyURL.Hostname, 0)
        /\ rt.carrier.deadline = 0

\* C32 witness: with --connect-timeout 5 the handshake with the proxy ran
\* under a deadline of 5 seconds and the tunnel was opened after it was
\* cleared
C32_Witness ==
    /\ rt.done
    /\ rt.err = ""
    /\ cfg.ProxyURL.Scheme = "https"
    /\ cfg.ConnectTimeout = 5
    /\ Contains(rt.trace, Deadline(cfg.ProxyURL.Hostname, 5))
    /\ Contains(rt.trace, Deadline(cfg.ProxyURL.Hostname, 0))
    /\ Contains(rt.trace, Event("write", cfg.ProxyURL.Hostname))
    /\ rt.carrier.tunnel # NoAddr
    /\ rt.carrier.deadline = 0

(***************************************************************************)
(* Plaintext requests, packet connections, Connect-To and Direct           *)
(***************************************************************************)
\* the request of the configuration is sent in plaintext
Plaintext == NewRequest(cfg).URL.Scheme = "http"

\* C33: a plaintext (http://) request never makes a TLS handshake with the
\* target, whatever transport is selected, forced HTTP/2 included: the TLS
\* dial is used for TLS-secured schemes only.
C33_NoTLSForPlaintext ==
    (rt.done /\ Plaintext) =>
        /\ rt.method # "DialTLSContext"
        /\ ServerHandshakes = <<>>
        /\ ~hello.sent

\* C34: without a proxy, whatever optional stages are enabled (Connect-To,
\* TLS-Split or both), the connection a UDP dial returns is a packet
\* connection, so DialQUIC never fails with "not a PacketConn".
C34_WrappersKeepPacketConn ==
    (QUICDial /\ cfg.ProxyURL = NoURL /\ rt.dialed) =>
        rt.err # "dialer returned not a PacketConn"

\* the position of the call of a stage among the calls of the last dial
IndexOf(stage) == CHOOSE i \in DOMAIN rt.calls : rt.calls[i].stage = stage

\* C36: Connect-To makes one exact-match lookup: in every dial its base dial
\* function is called exactly once, with the mapped address when the address
\* is a key of the redirect map and with the unchanged address otherwise; the
\* mapped address is not looked up again.
C36_ConnectToSingleLookup ==
    (rt.done /\ CallsOf("ConnectTo") # <<>>) =>
        /\ Len(CallsOf("ConnectTo")) = 1
        /\ LET i == IndexOf("ConnectTo")
               addr == rt.calls[i].addr
           IN  /\ Len(rt.calls) > i
               /\ Len(CallsOf(rt.calls[i + 1].stage)) = 1
               /\ rt.calls[i + 1].addr =
                     IF addr \in DOMAIN cfg.ConnectTo THEN cfg.ConnectTo[addr]
                     ELSE addr

\* C36 witness: example.org:443 is mapped to mapped.example:8443, which is a
\* key of the map itself, and the Direct stage is called with it
C36_Witness ==
    /\ rt.done
    /\ rt.err = ""
    /\ rt.calls = <<DialCall("ConnectTo", "tcp", <<"example.org", "443">>),
                    DialCall("Direct", "tcp", <<"mapped.example", "8443">>)>>
    /\ <<"mapped.example", "8443">> \in DOMAIN cfg.ConnectTo

\* C37: Direct.Dial opens at most one socket per call and tries one address
\* only, the first the Resolver returned; when connecting to it fails, the
\* dial fails with that error and no socket is opened.
C37_FirstAddressOnly ==
    (rt.done /\ Len(CallsOf("Direct")) = 1) =>
        /\ Len(EventsOf("connect")) <= 1
        /\ Len(EventsOf("socket")) <= 1
        /\ \A i \in DOMAIN rt.trace :
              rt.trace[i].kind = "connect" =>
                  /\ i > 1
                  /\ rt.trace[i - 1].kind = "resolved"
                  /\ rt.trace[i].ip = rt.trace[i - 1].ips[1]
                  /\ \/ /\ i = Len(rt.trace)
                        /\ ~rt.dialed
                        /\ rt.err \in {"connect", "failed to connect to proxy: connect"}
                     \/ /\ i < Len(rt.trace)
                        /\ rt.trace[i + 1] = Event("socket", rt.trace[i].host)

\* C37 witness: the Resolver returned two addresses, connecting to the first
\* failed and the dial failed with that error
C37_Witness ==
    /\ rt.done
    /\ rt.err = "connect"
    /\ Len(rt.trace) = 3
    /\ rt.trace[2].kind = "resolved"
    /\ Len(rt.trace[2].ips) >= 2
    /\ rt.trace[3] = Connect(rt.trace[2].host, rt.trace[2].ips[1])

(***************************************************************************)
(* Concurrent round trips                                                  *)
(***************************************************************************)
\* C35: when two round trips run concurrently on one Transport, the TLS
\* state of each response is that of the connection that carried its request
\* and the connection reported for it is that connection, under every
\* interleaving.
C35_OwnConnectionUnderConcurrency ==
    \A p \in Procs :
        /\ (/\ rts[p].pc \in {"responded", "done"}
            /\ rts[p].base.err = ""
            /\ IsConnectionStater(rts[p].base.ret)) =>
                rts[p].TLS = <<ConnectionState(rts[p].base.ret)>>
        /\ (rts[p].pc = "done" /\ rts[p].base.err = "") =>
                rts[p].conn = rts[p].base.ret

(***************************************************************************)
(* Bounded resolution                                                      *)
(***************************************************************************)
\* C39: every LookupHost call ends after at most 2 * N DNS exchanges for N
\* upstreams: each upstream is asked at most once per query type, whether
\* the resolution succeeds or fails.
C39_BoundedExchanges ==
    Returned("LookupHost") =>
        /\ Len(queries) <= 2 * NumUpstreams
        /\ \A i, j \in 1..Len(queries) :
              (queries[i].q = queries[j].q /\ queries[i].u = queries[j].u) => i = j
        /\ \A i \in 1..Len(queries) : queries[i].q \in {"A", "AAAA"}

\* C39 witness: a resolution that failed at every upstream for both query
\* types, after exactly one exchange per upstream and query type
C39_Witness ==
    /\ Returned("LookupHost")
    /\ ret.err # NilErr
    /\ ret.ipAddresses = <<>>
    /\ Len(queries) = 2 * NumUpstreams
    /\ \A u \in Upstreams : net.A[u] = "neterr" /\ net.AAAA[u] = "servfail"

(***************************************************************************)
(* The TLS random reader                                                   *)
(***************************************************************************)
\* C40: over any sequence of Read calls with buffers of any sizes, the
\* output of the TLS random reader starts with the configured random bytes,
\* once and in order, every later byte comes from the system random source,
\* and the reader never goes past the end of the configured data.
C40_RandomOnceInOrder ==
    rnd.set =>
        /\ rnd.r.pos <= Len(rnd.r.data)
        /\ rnd.r.pos = IF Len(rnd.out) < Len(rnd.r.data)
                       THEN Len(rnd.out) ELSE Len(rnd.r.data)
        /\ \A i \in 1..Len(rnd.out) :
              rnd.out[i] = IF i <= Len(rnd.r.data)
                           THEN DataByte(rnd.r.data[i]) ELSE SystemByte

\* C40 witness: the configured bytes were delivered over two reads, the
\* second of which went on into the system random source
C40_Witness ==
    /\ rnd.set
    /\ Len(rnd.sizes) = 2
    /\ rnd.sizes[1] = 1
    /\ rnd.sizes[2] = RandomLen + 1
    /\ Len(rnd.out) = RandomLen + 2
    /\ rnd.out[RandomLen] = DataByte(rnd.r.data[RandomLen])
    /\ rnd.out[RandomLen + 2] = SystemByte
====
